---- MODULE Spec2Model ----
(***************************************************************************)
(* Storage core of relational-db: the slotted Page (src/src/page.rs), the  *)
(* tuple and value codec (src/src/tuple.rs, src/src/values.rs,             *)
(* src/src/serializer.rs) and the PageTable file (src/src/page_table.rs).  *)
(*                                                                         *)
(* Byte strings (the page's data array, the table file, serialized values) *)
(* are kept run-length encoded: a sequence of <<byte, count>> runs with    *)
(* count > 0 and no two adjacent runs of the same byte.  The encoding is   *)
(* canonical, so two byte strings are equal iff their run lists are equal, *)
(* and every operator below is exact on the bytes.                         *)
(***************************************************************************)
EXTENDS Integers, Sequences, FiniteSets, TLC

\* Number of Page calls, and of PageTable calls, explored from the initial state.
MaxPageOps == 4
MaxTableOps == 4

PAGE_SIZE == 8192
PAGE_HEADER_SIZE == 4 + 2 * 2
PAGE_DATA_SIZE == PAGE_SIZE - PAGE_HEADER_SIZE
TupleHeader_size == 1 + 2

\* values of a u16 (the casts `as u16`)
U16 == 256 * 256

---------------------------------------------------------------------------
(* Byte strings *)

\* n copies of byte b ([b; n])
Rep(b, n) == IF n <= 0 THEN <<>> ELSE << <<b, n>> >>

\* the number of bytes; long sequences of runs are halved rather than walked
\* run by run, to keep the evaluation shallow
RECURSIVE BLen(_)
BLen(r) ==
    IF r = <<>> THEN 0
    ELSE IF Len(r) <= 16 THEN r[1][2] + BLen(Tail(r))
    ELSE BLen(SubSeq(r, 1, Len(r) \div 2))
           + BLen(SubSeq(r, Len(r) \div 2 + 1, Len(r)))

\* concatenation (consecutive write_all calls on one writer)
BCat(a, b) ==
    IF a = <<>> THEN b
    ELSE IF b = <<>> THEN a
    ELSE IF a[Len(a)][1] = b[1][1]
         THEN SubSeq(a, 1, Len(a) - 1)
                \o << <<b[1][1], a[Len(a)][2] + b[1][2]>> >> \o Tail(b)
         ELSE a \o b

\* the first n bytes (all of r when it is shorter)
RECURSIVE BTake(_, _)
BTake(r, n) ==
    LET Split(h, hl, rest) ==
          IF hl >= n THEN BTake(h, n) ELSE h \o BTake(rest, n - hl)
    IN  IF n <= 0 \/ r = <<>> THEN <<>>
        ELSE IF Len(r) <= 16
        THEN (IF r[1][2] <= n THEN <<r[1]>> \o BTake(Tail(r), n - r[1][2])
              ELSE << <<r[1][1], n>> >>)
        ELSE Split(SubSeq(r, 1, Len(r) \div 2),
                   BLen(SubSeq(r, 1, Len(r) \div 2)),
                   SubSeq(r, Len(r) \div 2 + 1, Len(r)))

\* the slice r[n..]
RECURSIVE BDrop(_, _)
BDrop(r, n) ==
    LET Split(h, hl, rest) ==
          IF hl > n THEN BDrop(h, n) \o rest ELSE BDrop(rest, n - hl)
    IN  IF n <= 0 \/ r = <<>> THEN r
        ELSE IF Len(r) <= 16
        THEN (IF r[1][2] <= n THEN BDrop(Tail(r), n - r[1][2])
              ELSE << <<r[1][1], r[1][2] - n>> >> \o Tail(r))
        ELSE Split(SubSeq(r, 1, Len(r) \div 2),
                   BLen(SubSeq(r, 1, Len(r) \div 2)),
                   SubSeq(r, Len(r) \div 2 + 1, Len(r)))

\* the n bytes at off (fewer when r ends first)
BSub(r, off, n) == BTake(BDrop(r, off), n)

\* the byte at off
BAt(r, off) == BDrop(r, off)[1][1]

\* a byte string from its bytes, and back
RECURSIVE Bytes(_)
Bytes(s) == IF s = <<>> THEN <<>> ELSE BCat(Rep(s[1], 1), Bytes(Tail(s)))

RECURSIVE Unpack(_)
Unpack(r) ==
    IF r = <<>> THEN <<>>
    ELSE IF r[1][2] = 1 THEN <<r[1][1]>> \o Unpack(Tail(r))
    ELSE <<r[1][1]>> \o Unpack(<< <<r[1][1], r[1][2] - 1>> >> \o Tail(r))

\* Cursor over the fixed slice arr[off..]: write_all(w) stores what fits in the
\* array and fails (WriteZero) when w does not fit whole.
SliceWrite(arr, off, w) ==
    LET Store(put) ==
          [data |-> BCat(BCat(BTake(arr, off), put), BDrop(arr, off + BLen(put))),
           ok   |-> BLen(put) = BLen(w)]
    IN  Store(BTake(w, BLen(arr) - off))

---------------------------------------------------------------------------
(* serializer.rs: big-endian primitives.  A reader is given the bytes r under *)
(* the cursor and the cursor's position at; Avail is read_exact's success.    *)

write_u16(v) == Bytes(<<(v \div 256) % 256, v % 256>>)

write_u32(v) ==
    Bytes(<<(v \div 16777216) % 256, (v \div 65536) % 256,
            (v \div 256) % 256, v % 256>>)

write_bool(v) == Bytes(<<IF v THEN 1 ELSE 0>>)

\* two's complement, big-endian
write_i32(v) ==
    IF v >= 0 THEN write_u32(v)
    ELSE LET Neg(w) == Bytes(<<128 + (w \div 16777216), (w \div 65536) % 256,
                               (w \div 256) % 256, w % 256>>)
         IN  Neg((v + 2147483647) + 1)

\* an f64 is kept as its 8 big-endian bytes
write_f64(bits) == Bytes(bits)

write_string(s) == BCat(write_u32(BLen(s)), s)

Avail(r, at, n) == at + n <= BLen(r)

read_u8(r, at) == BAt(r, at)

read_u16(r, at) ==
    LET Val(b) == b[1] * 256 + b[2] IN Val(Unpack(BSub(r, at, 2)))

\* -1 stands for a value of 2^31 or more
read_u32(r, at) ==
    LET Val(b) == IF b[1] >= 128 THEN -1
                  ELSE b[1] * 16777216 + b[2] * 65536 + b[3] * 256 + b[4]
    IN  Val(Unpack(BSub(r, at, 4)))

read_i32(r, at) ==
    LET Val(b) ==
          IF b[1] >= 128
          THEN (((b[1] - 128) * 16777216 + b[2] * 65536 + b[3] * 256 + b[4])
                  - 2147483647) - 1
          ELSE b[1] * 16777216 + b[2] * 65536 + b[3] * 256 + b[4]
    IN  Val(Unpack(BSub(r, at, 4)))

read_f64(r, at) == Unpack(BSub(r, at, 8))

read_bool(r, at) == read_u8(r, at) # 0

\* String::from_utf8 on the model's alphabet: ASCII is valid; a byte >= 0x80
\* never starts or continues a sequence the model writes, and is rejected.
IsUtf8(s) == \A i \in 1..Len(s) : s[i][1] < 128

\* [ok, v, next]: the string and the position after it
read_string(r, at) ==
    LET Fail == [ok |-> FALSE, v |-> <<>>, next |-> at]
        Body(n) ==
          IF n < 0 \/ ~Avail(r, at + 4, n) THEN Fail
          ELSE LET Str(s) == [ok |-> IsUtf8(s), v |-> s, next |-> at + 4 + n]
               IN  Str(BSub(r, at + 4, n))
    IN  IF ~Avail(r, at, 4) THEN Fail ELSE Body(read_u32(r, at))

---------------------------------------------------------------------------
(* values.rs: DBValue = [k: DBType, v: payload] *)

DBValue_dtype(val) == val.k

\* Variant: a string counts its bytes without the length prefix.
DBValue_len_bare(val) ==
    CASE val.k = "Bool"   -> 1
      [] val.k = "Int"    -> 4
      [] val.k = "Double" -> 8
      [] val.k = "String" -> BLen(val.v)

DBValue_len(val) ==
    CASE val.k = "Bool"   -> 1
      [] val.k = "Int"    -> 4
      [] val.k = "Double" -> 8
      [] val.k = "String" -> 4 + BLen(val.v)

DBValue_write(val) ==
    CASE val.k = "Bool"   -> write_bool(val.v)
      [] val.k = "Int"    -> write_i32(val.v)
      [] val.k = "Double" -> write_f64(val.v)
      [] val.k = "String" -> write_string(val.v)

\* [ok, v, next]: the value and the position after it
DBValue_from_reader(r, at, dtype) ==
    LET Fail == [ok |-> FALSE, v |-> [k |-> dtype, v |-> 0], next |-> at]
        Str(x) == [ok |-> x.ok, v |-> [k |-> "String", v |-> x.v], next |-> x.next]
    IN  CASE dtype = "Bool" ->
               IF ~Avail(r, at, 1) THEN Fail
               ELSE [ok |-> TRUE, v |-> [k |-> "Bool", v |-> read_bool(r, at)],
                     next |-> at + 1]
          [] dtype = "Int" ->
               IF ~Avail(r, at, 4) THEN Fail
               ELSE [ok |-> TRUE, v |-> [k |-> "Int", v |-> read_i32(r, at)],
                     next |-> at + 4]
          [] dtype = "Double" ->
               IF ~Avail(r, at, 8) THEN Fail
               ELSE [ok |-> TRUE, v |-> [k |-> "Double", v |-> read_f64(r, at)],
                     next |-> at + 8]
          [] dtype = "String" -> Str(read_string(r, at))

---------------------------------------------------------------------------
(* table.rs: the schema of the table that owns the pages *)

\* test::sample_table: (id int, name text, height double, is_fox bool)
columns == <<"Int", "String", "Double", "Bool">>

---------------------------------------------------------------------------
(* tuple.rs: a Tuple is the sequence of its values *)

RECURSIVE Tuple_size(_)
Tuple_size(t) ==
    IF t = <<>> THEN 0 ELSE DBValue_len(t[1]) + Tuple_size(Tail(t))

\* The bytes Tuple::write hands to its writer, value by value, and its result:
\* a value of the wrong type stops the writing after the values before it.
RECURSIVE Tuple_write_from(_, _)
Tuple_write_from(t, i) ==
    IF i > Len(columns) THEN [bytes |-> <<>>, err |-> "Ok"]
    ELSE IF DBValue_dtype(t[i]) # columns[i]
         THEN [bytes |-> <<>>, err |-> "Execution"]
    ELSE LET Join(more) ==
               [bytes |-> BCat(DBValue_write(t[i]), more.bytes), err |-> more.err]
         IN  Join(Tuple_write_from(t, i + 1))

Tuple_write(t) ==
    IF Len(t) # Len(columns) THEN [bytes |-> <<>>, err |-> "Execution"]
    ELSE Tuple_write_from(t, 1)

\* [ok, tuple, next]: the values of columns i.. read from position at, and
\* the position the reader is left at
RECURSIVE Tuple_read_from(_, _, _)
Tuple_read_from(r, at, i) ==
    IF i > Len(columns) THEN [ok |-> TRUE, tuple |-> <<>>, next |-> at]
    ELSE LET Join(x, more) == [ok |-> more.ok, tuple |-> <<x.v>> \o more.tuple,
                               next |-> more.next]
             Cont(x) == IF ~x.ok THEN [ok |-> FALSE, tuple |-> <<>>, next |-> x.next]
                        ELSE Join(x, Tuple_read_from(r, x.next, i + 1))
         IN  Cont(DBValue_from_reader(r, at, columns[i]))

Tuple_read(r, at) == Tuple_read_from(r, at, 1)

---------------------------------------------------------------------------
(* page.rs: TupleHeader and Page *)

\* Variant: the length is written low byte first.
TupleHeader_write_le(alive, len) ==
    BCat(write_bool(alive), Bytes(<<len % 256, (len \div 256) % 256>>))

TupleHeader_write(alive, len) == BCat(write_bool(alive), write_u16(len % U16))

\* [ok, alive, len]
TupleHeader_from_reader(r, at) ==
    IF ~Avail(r, at, TupleHeader_size) THEN [ok |-> FALSE, alive |-> FALSE, len |-> 0]
    ELSE [ok |-> TRUE, alive |-> read_bool(r, at), len |-> read_u16(r, at + 1)]

Page_new(id) ==
    [id |-> id, free_space_end |-> 0, dead_space |-> 0,
     data |-> Rep(0, PAGE_DATA_SIZE)]

\* Variant: dead_space is left out of the page header.
Page_write_short(p) ==
    BCat(BCat(write_u32(p.id), write_u16(p.free_space_end % U16)), p.data)

Page_write(p) ==
    BCat(BCat(BCat(write_u32(p.id), write_u16(p.free_space_end % U16)),
              write_u16(p.dead_space % U16)), p.data)

\* [ok, page] from the bytes of one page
Page_read(r) ==
    [ok |-> Avail(r, 0, PAGE_HEADER_SIZE + PAGE_DATA_SIZE),
     page |-> [id |-> read_u32(r, 0), free_space_end |-> read_u16(r, 4),
               dead_space |-> read_u16(r, 6),
               data |-> BSub(r, PAGE_HEADER_SIZE, PAGE_DATA_SIZE)]]

free_space(p) == PAGE_DATA_SIZE - p.free_space_end

\* Variant: a tuple that exactly fills the remaining space is refused.
can_fit_tuple_strict(p, t) == free_space(p) > TupleHeader_size + Tuple_size(t)

\* Variant: the slot header is not counted.
can_fit_tuple_payload(p, t) == free_space(p) >= Tuple_size(t)

can_fit_tuple(p, t) == free_space(p) >= TupleHeader_size + Tuple_size(t)

\* Variant: free_space_end advances by the payload only, not the slot header.
Page_insert_tuple_short(p, t) ==
    LET Done(len, h, tw, d) ==
          IF ~h.ok \/ ~d.ok
          THEN [res |-> "IO", val |-> 0, page |-> [p EXCEPT !.data = d.data]]
          ELSE IF tw.err # "Ok"
          THEN [res |-> tw.err, val |-> 0, page |-> [p EXCEPT !.data = d.data]]
          ELSE [res |-> "Ok", val |-> p.free_space_end % U16,
                page |-> [p EXCEPT !.data = d.data,
                                   !.free_space_end = @ + len]]
        Payload(len, h, tw) ==
          Done(len, h, tw,
               IF h.ok THEN SliceWrite(h.data, p.free_space_end + TupleHeader_size,
                                       tw.bytes)
               ELSE h)
        Header(len) ==
          Payload(len,
                  SliceWrite(p.data, p.free_space_end, TupleHeader_write(TRUE, len)),
                  Tuple_write(t))
    IN  IF ~can_fit_tuple(p, t) THEN [res |-> "Integrity", val |-> 0, page |-> p]
        ELSE Header(Tuple_size(t))

\* Variant: no capacity check, and a write cut short by the end of the data
\* region goes unnoticed.
Page_insert_tuple_unchecked(p, t) ==
    LET Done(len, h, tw, d) ==
          IF tw.err # "Ok"
          THEN [res |-> tw.err, val |-> 0, page |-> [p EXCEPT !.data = d.data]]
          ELSE [res |-> "Ok", val |-> p.free_space_end % U16,
                page |-> [p EXCEPT !.data = d.data,
                                   !.free_space_end = @ + TupleHeader_size + len]]
        Payload(len, h, tw) ==
          Done(len, h, tw,
               IF h.ok THEN SliceWrite(h.data, p.free_space_end + TupleHeader_size,
                                       tw.bytes)
               ELSE h)
        Header(len) ==
          Payload(len,
                  SliceWrite(p.data, p.free_space_end, TupleHeader_write(TRUE, len)),
                  Tuple_write(t))
    IN  Header(Tuple_size(t))

\* Results are [res, val, page]: res is "Ok" or the DBError variant, val the
\* returned value, page the Page after the call.
Page_insert_tuple(p, t) ==
    LET Done(len, h, tw, d) ==
          IF ~h.ok \/ ~d.ok
          THEN [res |-> "IO", val |-> 0, page |-> [p EXCEPT !.data = d.data]]
          ELSE IF tw.err # "Ok"
          THEN [res |-> tw.err, val |-> 0, page |-> [p EXCEPT !.data = d.data]]
          ELSE [res |-> "Ok", val |-> p.free_space_end % U16,
                page |-> [p EXCEPT !.data = d.data,
                                   !.free_space_end = @ + TupleHeader_size + len]]
        Payload(len, h, tw) ==
          Done(len, h, tw,
               IF h.ok THEN SliceWrite(h.data, p.free_space_end + TupleHeader_size,
                                       tw.bytes)
               ELSE h)
        Header(len) ==
          Payload(len,
                  SliceWrite(p.data, p.free_space_end, TupleHeader_write(TRUE, len)),
                  Tuple_write(t))
    IN  IF ~can_fit_tuple(p, t) THEN [res |-> "Integrity", val |-> 0, page |-> p]
        ELSE Header(Tuple_size(t))

\* Variant: the dead space is counted but the header is not written back.
Page_mark_tuple_dead_unwritten(p, tuple_offset) ==
    LET Mark(header) ==
          IF ~header.ok THEN [res |-> "IO", val |-> 0, page |-> p]
          ELSE [res |-> "Ok", val |-> 0,
                page |-> [p EXCEPT
                    !.dead_space = @ + TupleHeader_size + header.len]]
    IN  IF tuple_offset >= PAGE_DATA_SIZE % U16
        THEN [res |-> "Integrity", val |-> 0, page |-> p]
        ELSE Mark(TupleHeader_from_reader(p.data, tuple_offset))

\* Variant: the header is written back but dead_space is not increased.
Page_mark_tuple_dead_uncounted(p, tuple_offset) ==
    LET Mark(header) ==
          IF ~header.ok THEN [res |-> "IO", val |-> 0, page |-> p]
          ELSE [res |-> "Ok", val |-> 0,
                page |-> [p EXCEPT
                    !.data = SliceWrite(p.data, tuple_offset,
                                        TupleHeader_write(FALSE, header.len)).data]]
    IN  IF tuple_offset >= PAGE_DATA_SIZE % U16
        THEN [res |-> "Integrity", val |-> 0, page |-> p]
        ELSE Mark(TupleHeader_from_reader(p.data, tuple_offset))

\* Variant: dead_space grows by the payload length only, not the slot header.
Page_mark_tuple_dead_payload(p, tuple_offset) ==
    LET Mark(header) ==
          IF ~header.ok THEN [res |-> "IO", val |-> 0, page |-> p]
          ELSE [res |-> "Ok", val |-> 0,
                page |-> [p EXCEPT
                    !.dead_space = @ + header.len,
                    !.data = SliceWrite(p.data, tuple_offset,
                                        TupleHeader_write(FALSE, header.len)).data]]
    IN  IF tuple_offset >= PAGE_DATA_SIZE % U16
        THEN [res |-> "Integrity", val |-> 0, page |-> p]
        ELSE Mark(TupleHeader_from_reader(p.data, tuple_offset))

Page_mark_tuple_dead(p, tuple_offset) ==
    LET Mark(header) ==
          IF ~header.ok THEN [res |-> "IO", val |-> 0, page |-> p]
          ELSE [res |-> "Ok", val |-> 0,
                page |-> [p EXCEPT
                    !.dead_space = @ + TupleHeader_size + header.len,
                    !.data = SliceWrite(p.data, tuple_offset,
                                        TupleHeader_write(FALSE, header.len)).data]]
    IN  IF tuple_offset >= PAGE_DATA_SIZE % U16
        THEN [res |-> "Integrity", val |-> 0, page |-> p]
        ELSE Mark(TupleHeader_from_reader(p.data, tuple_offset))

\* Variant: a tuple exactly as long as the slot is refused.
Page_overwrite_tuple_strict(p, tuple_offset, t) ==
    LET Done(tw, d) ==
          [res |-> IF ~d.ok THEN "IO" ELSE tw.err,
           val |-> d.ok /\ tw.err = "Ok",
           page |-> [p EXCEPT !.data = d.data]]
        Payload(tw) ==
          Done(tw, SliceWrite(p.data, tuple_offset + TupleHeader_size, tw.bytes))
        Check(header) ==
          IF ~header.ok THEN [res |-> "IO", val |-> FALSE, page |-> p]
          ELSE IF ~header.alive
          THEN [res |-> "Integrity", val |-> FALSE, page |-> p]
          ELSE IF Tuple_size(t) >= header.len
          THEN [res |-> "Ok", val |-> FALSE, page |-> p]
          ELSE Payload(Tuple_write(t))
    IN  IF tuple_offset >= PAGE_DATA_SIZE % U16
        THEN [res |-> "Integrity", val |-> FALSE, page |-> p]
        ELSE Check(TupleHeader_from_reader(p.data, tuple_offset))

\* Variant: the slot header is rewritten with the new tuple's length.
Page_overwrite_tuple_resize(p, tuple_offset, t) ==
    LET Done(tw, d) ==
          [res |-> IF ~d.ok THEN "IO" ELSE tw.err,
           val |-> d.ok /\ tw.err = "Ok",
           page |-> [p EXCEPT !.data = d.data]]
        Payload(tw) ==
          Done(tw, SliceWrite(p.data, tuple_offset,
                              BCat(TupleHeader_write(TRUE, Tuple_size(t)), tw.bytes)))
        Check(header) ==
          IF ~header.ok THEN [res |-> "IO", val |-> FALSE, page |-> p]
          ELSE IF ~header.alive
          THEN [res |-> "Integrity", val |-> FALSE, page |-> p]
          ELSE IF Tuple_size(t) > header.len
          THEN [res |-> "Ok", val |-> FALSE, page |-> p]
          ELSE Payload(Tuple_write(t))
    IN  IF tuple_offset >= PAGE_DATA_SIZE % U16
        THEN [res |-> "Integrity", val |-> FALSE, page |-> p]
        ELSE Check(TupleHeader_from_reader(p.data, tuple_offset))

\* val is the returned bool
Page_overwrite_tuple(p, tuple_offset, t) ==
    LET Done(tw, d) ==
          [res |-> IF ~d.ok THEN "IO" ELSE tw.err,
           val |-> d.ok /\ tw.err = "Ok",
           page |-> [p EXCEPT !.data = d.data]]
        Payload(tw) ==
          Done(tw, SliceWrite(p.data, tuple_offset + TupleHeader_size, tw.bytes))
        Check(header) ==
          IF ~header.ok THEN [res |-> "IO", val |-> FALSE, page |-> p]
          ELSE IF ~header.alive
          THEN [res |-> "Integrity", val |-> FALSE, page |-> p]
          ELSE IF Tuple_size(t) > header.len
          THEN [res |-> "Ok", val |-> FALSE, page |-> p]
          ELSE Payload(Tuple_write(t))
    IN  IF tuple_offset >= PAGE_DATA_SIZE % U16
        THEN [res |-> "Integrity", val |-> FALSE, page |-> p]
        ELSE Check(TupleHeader_from_reader(p.data, tuple_offset))

\* PageIterator: the items next() yields from self.offset on, in order, until it
\* returns None.  An item is [res |-> "Ok", off, tuple], [res |-> "IO", off] for
\* a tuple that does not decode, or [res |-> "panic"] (the expect on the header
\* read), after which nothing follows.
RECURSIVE PageIterator_from(_, _)
PageIterator_from(p, offset) ==
    LET Item(t) == IF t.ok THEN [res |-> "Ok", off |-> offset % U16, tuple |-> t.tuple]
                   ELSE [res |-> "IO", off |-> offset % U16]
        Step(header) ==
          IF ~header.ok THEN << [res |-> "panic"] >>
          ELSE IF ~header.alive
          THEN PageIterator_from(p, offset + TupleHeader_size + header.len)
          ELSE <<Item(Tuple_read(p.data, offset + TupleHeader_size))>>
                 \o PageIterator_from(p, offset + TupleHeader_size + header.len)
    IN  IF offset >= p.free_space_end THEN <<>>
        ELSE Step(TupleHeader_from_reader(p.data, offset))

Page_iter(p) == PageIterator_from(p, 0)

---------------------------------------------------------------------------
(* page_table.rs: PageTable over its data file; pt = [file, page_count] *)

\* seek(off) then write_all(w) on the data file: the file grows as needed, a
\* gap left by the seek reads as zeros
FileWrite(f, off, w) ==
    LET Put(base) == BCat(BCat(BTake(base, off), w), BDrop(base, off + BLen(w)))
    IN  Put(BCat(f, Rep(0, off - BLen(f))))

PageTable_init ==
    [file |-> Page_write(Page_new(0)), page_count |-> 1]

PageTable_load(f) ==
    IF BLen(f) % PAGE_SIZE # 0 THEN [res |-> "IO", page_count |-> 0]
    ELSE [res |-> "Ok", page_count |-> BLen(f) \div PAGE_SIZE]

\* [res, page]
get_page(pt, page_id) ==
    LET Parse(pr) == IF ~pr.ok THEN [res |-> "IO", page |-> Page_new(0)]
                     ELSE [res |-> "Ok", page |-> pr.page]
        Load(buf) == IF BLen(buf) < PAGE_SIZE
                     THEN [res |-> "IO", page |-> Page_new(0)]
                     ELSE Parse(Page_read(buf))
    IN  IF page_id >= pt.page_count
        THEN [res |-> "Integrity", page |-> Page_new(0)]
        ELSE Load(BSub(pt.file, PAGE_SIZE * page_id, PAGE_SIZE))

\* Variant: every page is written behind the last page of the file.
save_page_append(pt, p) ==
    [file |-> FileWrite(pt.file, PAGE_SIZE * pt.page_count, Page_write(p)),
     page_count |-> pt.page_count + 1]

\* Variant: the in-memory page_count is not advanced when a page is written
\* past the end of the file.
save_page_stale(pt, p) ==
    [file |-> FileWrite(pt.file, PAGE_SIZE * p.id, Page_write(p)),
     page_count |-> pt.page_count]

save_page(pt, p) ==
    [file |-> FileWrite(pt.file, PAGE_SIZE * p.id, Page_write(p)),
     page_count |-> IF p.id >= pt.page_count THEN p.id + 1 ELSE pt.page_count]

\* Variant: the tuple goes to the first page that can fit it.
PageTable_insert_tuple_firstfit(pt, t) ==
    LET Save(r) ==
          IF r.res # "Ok" THEN [res |-> r.res, val |-> <<0, 0>>, pt |-> pt]
          ELSE [res |-> "Ok", val |-> <<r.page.id, r.val>>,
                pt |-> save_page(pt, r.page)]
        Fits(i) == can_fit_tuple(get_page(pt, i).page, t)
        Pick(ids) ==
          Save(Page_insert_tuple(
                  IF ids = {} THEN Page_new(pt.page_count)
                  ELSE get_page(pt, CHOOSE i \in ids : \A j \in ids : i <= j).page, t))
    IN  Pick({i \in 0..(pt.page_count - 1) : Fits(i)})

\* Variant: a tuple that does not fit the last page goes to a fresh page that
\* takes the last page's id.
PageTable_insert_tuple_clobber(pt, t) ==
    LET Save(r) ==
          IF r.res # "Ok" THEN [res |-> r.res, val |-> <<0, 0>>, pt |-> pt]
          ELSE [res |-> "Ok", val |-> <<r.page.id, r.val>>,
                pt |-> save_page(pt, r.page)]
        Pick(last) ==
          IF last.res # "Ok" THEN [res |-> last.res, val |-> <<0, 0>>, pt |-> pt]
          ELSE Save(Page_insert_tuple(
                      IF ~can_fit_tuple(last.page, t)
                      THEN Page_new(pt.page_count - 1) ELSE last.page, t))
    IN  Pick(get_page(pt, pt.page_count - 1))

\* Variant: a fresh page is saved as soon as it is created, before the tuple
\* is inserted into it.
PageTable_insert_tuple_eager(pt, t) ==
    LET Save(q, r) ==
          IF r.res # "Ok" THEN [res |-> r.res, val |-> <<0, 0>>, pt |-> q]
          ELSE [res |-> "Ok", val |-> <<r.page.id, r.val>>,
                pt |-> save_page(q, r.page)]
        Pick(last) ==
          IF last.res # "Ok" THEN [res |-> last.res, val |-> <<0, 0>>, pt |-> pt]
          ELSE IF ~can_fit_tuple(last.page, t)
               THEN Save(save_page(pt, Page_new(pt.page_count)),
                         Page_insert_tuple(Page_new(pt.page_count), t))
               ELSE Save(pt, Page_insert_tuple(last.page, t))
    IN  Pick(get_page(pt, pt.page_count - 1))

\* Results are [res, val, pt]: val the returned (page_id, offset), pt the file
\* and page_count after the call.
PageTable_insert_tuple(pt, t) ==
    LET Save(r) ==
          IF r.res # "Ok" THEN [res |-> r.res, val |-> <<0, 0>>, pt |-> pt]
          ELSE [res |-> "Ok", val |-> <<r.page.id, r.val>>,
                pt |-> save_page(pt, r.page)]
        Pick(last) ==
          IF last.res # "Ok" THEN [res |-> last.res, val |-> <<0, 0>>, pt |-> pt]
          ELSE Save(Page_insert_tuple(
                      IF ~can_fit_tuple(last.page, t)
                      THEN Page_new(pt.page_count) ELSE last.page, t))
    IN  Pick(get_page(pt, pt.page_count - 1))

\* Variant: after a relocation to another page the tombstoned page is not saved.
PageTable_overwrite_tuple_unsaved(pt, page_id, offset, t) ==
    LET Fail(e) == [res |-> e, val |-> <<0, 0>>, pt |-> pt]
        Elsewhere(m, n) ==
          IF n.res # "Ok" THEN Fail(n.res)
          ELSE [res |-> "Ok", val |-> n.val, pt |-> n.pt]
        SamePage(i) ==
          IF i.res # "Ok" THEN Fail(i.res)
          ELSE [res |-> "Ok", val |-> <<page_id, i.val>>,
                pt |-> save_page(pt, i.page)]
        Relocate(m) ==
          IF m.res # "Ok" THEN Fail(m.res)
          ELSE IF can_fit_tuple(m.page, t)
               THEN SamePage(Page_insert_tuple(m.page, t))
               ELSE Elsewhere(m, PageTable_insert_tuple(pt, t))
        Over(g, o) ==
          IF o.res # "Ok" THEN Fail(o.res)
          ELSE IF o.val
               THEN [res |-> "Ok", val |-> <<page_id, offset>>,
                     pt |-> save_page(pt, o.page)]
               ELSE Relocate(Page_mark_tuple_dead(g.page, offset))
        Got(g) ==
          IF g.res # "Ok" THEN Fail(g.res)
          ELSE Over(g, Page_overwrite_tuple(g.page, offset, t))
    IN  Got(get_page(pt, page_id))

PageTable_overwrite_tuple(pt, page_id, offset, t) ==
    LET Fail(e) == [res |-> e, val |-> <<0, 0>>, pt |-> pt]
        Elsewhere(m, n) ==
          IF n.res # "Ok" THEN Fail(n.res)
          ELSE [res |-> "Ok", val |-> n.val, pt |-> save_page(n.pt, m.page)]
        SamePage(i) ==
          IF i.res # "Ok" THEN Fail(i.res)
          ELSE [res |-> "Ok", val |-> <<page_id, i.val>>,
                pt |-> save_page(pt, i.page)]
        Relocate(m) ==
          IF m.res # "Ok" THEN Fail(m.res)
          ELSE IF can_fit_tuple(m.page, t)
               THEN SamePage(Page_insert_tuple(m.page, t))
               ELSE Elsewhere(m, PageTable_insert_tuple(pt, t))
        Over(g, o) ==
          IF o.res # "Ok" THEN Fail(o.res)
          ELSE IF o.val
               THEN [res |-> "Ok", val |-> <<page_id, offset>>,
                     pt |-> save_page(pt, o.page)]
               ELSE Relocate(Page_mark_tuple_dead(g.page, offset))
        Got(g) ==
          IF g.res # "Ok" THEN Fail(g.res)
          ELSE Over(g, Page_overwrite_tuple(g.page, offset, t))
    IN  Got(get_page(pt, page_id))

\* overwrite_tuple cut at its writes to the data file. A frame holds the
\* call's locals, [pc, page, res, err]: pc is "insert" before the nested
\* insert_tuple, "save" before the closing save_page, "done" after the return;
\* page is the local page, res the location to be returned, err the outcome.
\* Each step gives [fr, pt], the frame and the file after it.
NoFrame == [pc |-> "done", page |-> Page_new(0), res |-> <<0, 0>>, err |-> "Ok"]

\* Variant: the tombstoned page is saved before the nested insert_tuple.
overwrite_tuple_begin_saved(pt, page_id, offset, t) ==
    LET Fail(e) == [fr |-> [NoFrame EXCEPT !.err = e], pt |-> pt]
        Frame(pc, p, off, q) ==
          [fr |-> [pc |-> pc, page |-> p, res |-> <<page_id, off>>, err |-> "Ok"],
           pt |-> q]
        SamePage(i) ==
          IF i.res # "Ok" THEN Fail(i.res) ELSE Frame("save", i.page, i.val, pt)
        Relocate(m) ==
          IF m.res # "Ok" THEN Fail(m.res)
          ELSE IF can_fit_tuple(m.page, t)
               THEN SamePage(Page_insert_tuple(m.page, t))
               ELSE Frame("insert", m.page, offset, save_page(pt, m.page))
        Over(g, o) ==
          IF o.res # "Ok" THEN Fail(o.res)
          ELSE IF o.val THEN Frame("save", o.page, offset, pt)
               ELSE Relocate(Page_mark_tuple_dead(g.page, offset))
        Got(g) ==
          IF g.res # "Ok" THEN Fail(g.res)
          ELSE Over(g, Page_overwrite_tuple(g.page, offset, t))
    IN  Got(get_page(pt, page_id))

\* Variant: a tuple that fits its slot is moved to the end of the page all the
\* same.
overwrite_tuple_begin_moved(pt, page_id, offset, t) ==
    LET Fail(e) == [fr |-> [NoFrame EXCEPT !.err = e], pt |-> pt]
        Frame(pc, p, off) ==
          [fr |-> [pc |-> pc, page |-> p, res |-> <<page_id, off>>, err |-> "Ok"],
           pt |-> pt]
        SamePage(i) ==
          IF i.res # "Ok" THEN Fail(i.res) ELSE Frame("save", i.page, i.val)
        Relocate(m) ==
          IF m.res # "Ok" THEN Fail(m.res)
          ELSE IF can_fit_tuple(m.page, t)
               THEN SamePage(Page_insert_tuple(m.page, t))
               ELSE Frame("insert", m.page, offset)
        Over(g, o) ==
          IF o.res # "Ok" THEN Fail(o.res)
          ELSE Relocate(Page_mark_tuple_dead(g.page, offset))
        Got(g) ==
          IF g.res # "Ok" THEN Fail(g.res)
          ELSE Over(g, Page_overwrite_tuple(g.page, offset, t))
    IN  Got(get_page(pt, page_id))

\* Variant: a tuple that does not fit its slot always goes through the nested
\* insert_tuple, whether or not the slot's page has room.
overwrite_tuple_begin_lastpage(pt, page_id, offset, t) ==
    LET Fail(e) == [fr |-> [NoFrame EXCEPT !.err = e], pt |-> pt]
        Frame(pc, p, off) ==
          [fr |-> [pc |-> pc, page |-> p, res |-> <<page_id, off>>, err |-> "Ok"],
           pt |-> pt]
        Relocate(m) ==
          IF m.res # "Ok" THEN Fail(m.res) ELSE Frame("insert", m.page, offset)
        Over(g, o) ==
          IF o.res # "Ok" THEN Fail(o.res)
          ELSE IF o.val THEN Frame("save", o.page, offset)
               ELSE Relocate(Page_mark_tuple_dead(g.page, offset))
        Got(g) ==
          IF g.res # "Ok" THEN Fail(g.res)
          ELSE Over(g, Page_overwrite_tuple(g.page, offset, t))
    IN  Got(get_page(pt, page_id))

\* from the call to the first point where the file is written
overwrite_tuple_begin(pt, page_id, offset, t) ==
    LET Fail(e) == [fr |-> [NoFrame EXCEPT !.err = e], pt |-> pt]
        Frame(pc, p, off) ==
          [fr |-> [pc |-> pc, page |-> p, res |-> <<page_id, off>>, err |-> "Ok"],
           pt |-> pt]
        SamePage(i) ==
          IF i.res # "Ok" THEN Fail(i.res) ELSE Frame("save", i.page, i.val)
        Relocate(m) ==
          IF m.res # "Ok" THEN Fail(m.res)
          ELSE IF can_fit_tuple(m.page, t)
               THEN SamePage(Page_insert_tuple(m.page, t))
               ELSE Frame("insert", m.page, offset)
        Over(g, o) ==
          IF o.res # "Ok" THEN Fail(o.res)
          ELSE IF o.val THEN Frame("save", o.page, offset)
               ELSE Relocate(Page_mark_tuple_dead(g.page, offset))
        Got(g) ==
          IF g.res # "Ok" THEN Fail(g.res)
          ELSE Over(g, Page_overwrite_tuple(g.page, offset, t))
    IN  Got(get_page(pt, page_id))

\* Variant: the nested call puts a tuple that does not fit the last page on a
\* fresh page with the last page's id.
overwrite_tuple_insert_clobber(pt, fr, t) ==
    LET Nested(n) ==
          IF n.res # "Ok" THEN [fr |-> [NoFrame EXCEPT !.err = n.res], pt |-> pt]
          ELSE [fr |-> [fr EXCEPT !.pc = "save", !.res = n.val], pt |-> n.pt]
    IN  Nested(PageTable_insert_tuple_clobber(pt, t))

\* res = self.insert_tuple(tuple)?
overwrite_tuple_insert(pt, fr, t) ==
    LET Nested(n) ==
          IF n.res # "Ok" THEN [fr |-> [NoFrame EXCEPT !.err = n.res], pt |-> pt]
          ELSE [fr |-> [fr EXCEPT !.pc = "save", !.res = n.val], pt |-> n.pt]
    IN  Nested(PageTable_insert_tuple(pt, t))

\* self.save_page(&page)?; Ok(res)
overwrite_tuple_save(pt, fr) ==
    [fr |-> [fr EXCEPT !.pc = "done"], pt |-> save_page(pt, fr.page)]

PageTable_delete_tuple(pt, page_id, offset) ==
    LET Save(m) ==
          IF m.res # "Ok" THEN [res |-> m.res, val |-> <<0, 0>>, pt |-> pt]
          ELSE [res |-> "Ok", val |-> <<page_id, offset>>,
                pt |-> save_page(pt, m.page)]
        Got(g) ==
          IF g.res # "Ok" THEN [res |-> g.res, val |-> <<0, 0>>, pt |-> pt]
          ELSE Save(Page_mark_tuple_dead(g.page, offset))
    IN  Got(get_page(pt, page_id))

\* The items of a page up to and including the first that is not Ok
RECURSIVE UntilError(_)
UntilError(items) ==
    IF items = <<>> THEN <<>>
    ELSE IF items[1].res # "Ok" THEN <<items[1]>>
    ELSE <<items[1]>> \o UntilError(Tail(items))

\* Variant: the rows of the later pages come before those of page_id.
RECURSIVE TableIterator_rev(_, _)
TableIterator_rev(pt, page_id) ==
    LET Row(item) ==
          IF item.res = "Ok"
          THEN [res |-> "Ok", page_id |-> page_id, off |-> item.off,
                tuple |-> item.tuple]
          ELSE [res |-> item.res]
        Chain(rows) ==
          IF rows # <<>> /\ rows[Len(rows)].res # "Ok" THEN rows
          ELSE TableIterator_rev(pt, page_id + 1) \o rows
        Rows(items) == Chain([k \in 1..Len(items) |-> Row(items[k])])
        Got(g) == IF g.res # "Ok" THEN << [res |-> g.res] >>
                  ELSE Rows(UntilError(Page_iter(g.page)))
    IN  IF page_id >= pt.page_count THEN <<>>
        ELSE Got(get_page(pt, page_id))

\* TableIterator: the items next() yields, in order, until it returns None, for
\* an iterator whose current page is page_id (not yet loaded).  Items are
\* [res |-> "Ok", page_id, off, tuple]; an item with another res is the error
\* (errored is set: nothing follows it).
RECURSIVE TableIterator_from(_, _)
TableIterator_from(pt, page_id) ==
    LET Row(item) ==
          IF item.res = "Ok"
          THEN [res |-> "Ok", page_id |-> page_id, off |-> item.off,
                tuple |-> item.tuple]
          ELSE [res |-> item.res]
        Chain(rows) ==
          IF rows # <<>> /\ rows[Len(rows)].res # "Ok" THEN rows
          ELSE rows \o TableIterator_from(pt, page_id + 1)
        Rows(items) == Chain([k \in 1..Len(items) |-> Row(items[k])])
        Got(g) == IF g.res # "Ok" THEN << [res |-> g.res] >>
                  ELSE Rows(UntilError(Page_iter(g.page)))
    IN  IF page_id >= pt.page_count THEN <<>>
        ELSE Got(get_page(pt, page_id))

PageTable_iter(pt) == TableIterator_from(pt, 0)

\* PageIterator::next from self.offset: [kind, res, off, tuple, offset] with
\* kind "None", "Some" (res "Ok" with the tuple, or the decoding error) or
\* "panic", and the iterator's offset afterwards.
RECURSIVE PageIterator_next(_, _)
PageIterator_next(p, offset) ==
    LET Done(kind, res, tup, nxt) ==
          [kind |-> kind, res |-> res, off |-> offset % U16, tuple |-> tup,
           offset |-> nxt]
        Item(t, nxt) ==
          IF t.ok THEN Done("Some", "Ok", t.tuple, nxt)
          ELSE Done("Some", "IO", <<>>, nxt)
        Step(header) ==
          IF ~header.ok THEN Done("panic", "IO", <<>>, offset)
          ELSE IF ~header.alive
          THEN PageIterator_next(p, offset + TupleHeader_size + header.len)
          ELSE Item(Tuple_read(p.data, offset + TupleHeader_size),
                    offset + TupleHeader_size + header.len)
    IN  IF offset >= p.free_space_end THEN Done("None", "Ok", <<>>, offset)
        ELSE Step(TupleHeader_from_reader(p.data, offset))

\* TableIterator::new; loaded stands for page_iterator.is_some(), page and
\* offset are the PageIterator's fields
TableIterator_new ==
    [page_id |-> 0, loaded |-> FALSE, page |-> Page_new(0), offset |-> 0,
     errored |-> FALSE]

\* Variant: page_id is not advanced when a page's iterator is exhausted.
RECURSIVE TableIterator_next_stuck(_, _)
TableIterator_next_stuck(pt, it) ==
    LET None(i) == [item |-> [res |-> "None"], it |-> i]
        Err(e, i) == [item |-> [res |-> e], it |-> [i EXCEPT !.errored = TRUE]]
        Load(i, g) ==
          IF g.res # "Ok" THEN Err(g.res, i)
          ELSE TableIterator_next_stuck(
                   pt, [i EXCEPT !.loaded = TRUE, !.page = g.page, !.offset = 0])
        Advance(i) ==
          IF i.page_id >= pt.page_count THEN None(i)
          ELSE Load(i, get_page(pt, i.page_id))
        Inner(r) ==
          IF r.kind = "panic" THEN [item |-> [res |-> "panic"], it |-> it]
          ELSE IF r.kind = "Some" /\ r.res = "Ok"
          THEN [item |-> [res |-> "Ok", page_id |-> it.page_id, off |-> r.off,
                          tuple |-> r.tuple],
                it |-> [it EXCEPT !.offset = r.offset]]
          ELSE IF r.kind = "Some"
          THEN Err(r.res, [it EXCEPT !.offset = r.offset])
          ELSE Advance([it EXCEPT !.offset = r.offset])
    IN  IF it.errored THEN None(it)
        ELSE IF it.loaded THEN Inner(PageIterator_next(it.page, it.offset))
        ELSE Advance(it)

\* Variant: an error is returned without setting errored.
RECURSIVE TableIterator_next_unflagged(_, _)
TableIterator_next_unflagged(pt, it) ==
    LET None(i) == [item |-> [res |-> "None"], it |-> i]
        Err(e, i) == [item |-> [res |-> e], it |-> i]
        Load(i, g) ==
          IF g.res # "Ok" THEN Err(g.res, i)
          ELSE TableIterator_next_unflagged(
                   pt, [i EXCEPT !.loaded = TRUE, !.page = g.page, !.offset = 0])
        Advance(i) ==
          IF i.page_id >= pt.page_count THEN None(i)
          ELSE Load(i, get_page(pt, i.page_id))
        Inner(r) ==
          IF r.kind = "panic" THEN [item |-> [res |-> "panic"], it |-> it]
          ELSE IF r.kind = "Some" /\ r.res = "Ok"
          THEN [item |-> [res |-> "Ok", page_id |-> it.page_id, off |-> r.off,
                          tuple |-> r.tuple],
                it |-> [it EXCEPT !.offset = r.offset]]
          ELSE IF r.kind = "Some"
          THEN Err(r.res, [it EXCEPT !.offset = r.offset])
          ELSE Advance([it EXCEPT !.page_id = @ + 1, !.offset = r.offset])
    IN  IF it.errored THEN None(it)
        ELSE IF it.loaded THEN Inner(PageIterator_next(it.page, it.offset))
        ELSE Advance(it)

\* TableIterator::next: [item, it], the value returned ([res |-> "None"] for
\* None, [res |-> "Ok", page_id, off, tuple] for a row, [res |-> e] for an
\* error, [res |-> "panic"]) and the iterator afterwards.
RECURSIVE TableIterator_next(_, _)
TableIterator_next(pt, it) ==
    LET None(i) == [item |-> [res |-> "None"], it |-> i]
        Err(e, i) == [item |-> [res |-> e], it |-> [i EXCEPT !.errored = TRUE]]
        Load(i, g) ==
          IF g.res # "Ok" THEN Err(g.res, i)
          ELSE TableIterator_next(
                   pt, [i EXCEPT !.loaded = TRUE, !.page = g.page, !.offset = 0])
        Advance(i) ==
          IF i.page_id >= pt.page_count THEN None(i)
          ELSE Load(i, get_page(pt, i.page_id))
        Inner(r) ==
          IF r.kind = "panic" THEN [item |-> [res |-> "panic"], it |-> it]
          ELSE IF r.kind = "Some" /\ r.res = "Ok"
          THEN [item |-> [res |-> "Ok", page_id |-> it.page_id, off |-> r.off,
                          tuple |-> r.tuple],
                it |-> [it EXCEPT !.offset = r.offset]]
          ELSE IF r.kind = "Some"
          THEN Err(r.res, [it EXCEPT !.offset = r.offset])
          ELSE Advance([it EXCEPT !.page_id = @ + 1, !.offset = r.offset])
    IN  IF it.errored THEN None(it)
        ELSE IF it.loaded THEN Inner(PageIterator_next(it.page, it.offset))
        ELSE Advance(it)

---------------------------------------------------------------------------
(* values.rs comparisons and operations.rs: the executor over one table *)

\* f64 from its big-endian bytes: NaN, sign, and the magnitude bits
F64_is_nan(b) ==
    /\ b[1] % 128 = 127 /\ b[2] \div 16 = 15
    /\ (b[2] % 16 # 0 \/ \E i \in 3..8 : b[i] # 0)

F64_mag(b) == <<b[1] % 128>> \o SubSeq(b, 2, 8)

RECURSIVE LexCmp(_, _)
LexCmp(a, b) ==
    IF a = <<>> THEN "Equal"
    ELSE IF a[1] < b[1] THEN "Less"
    ELSE IF a[1] > b[1] THEN "Greater"
    ELSE LexCmp(Tail(a), Tail(b))

\* f64::partial_cmp: "Less", "Equal", "Greater" or "None"
F64_partial_cmp(a, b) ==
    LET Flip(c) == IF c = "Less" THEN "Greater"
                   ELSE IF c = "Greater" THEN "Less" ELSE c
        Zero(x) == \A i \in 1..8 : F64_mag(x)[i] = 0
    IN  IF F64_is_nan(a) \/ F64_is_nan(b) THEN "None"
        ELSE IF Zero(a) /\ Zero(b) THEN "Equal"
        ELSE IF a[1] >= 128 /\ b[1] < 128 THEN "Less"
        ELSE IF a[1] < 128 /\ b[1] >= 128 THEN "Greater"
        ELSE IF a[1] >= 128 THEN Flip(LexCmp(F64_mag(a), F64_mag(b)))
        ELSE LexCmp(F64_mag(a), F64_mag(b))

\* #[derive(PartialEq)] on DBValue
DBValue_eq(a, b) ==
    /\ a.k = b.k
    /\ IF a.k = "Double" THEN F64_partial_cmp(a.v, b.v) = "Equal" ELSE a.v = b.v

\* Variant: two Bools and two Strings are ordered as well.
DBValue_partial_cmp_total(a, b) ==
    IF a.k = "Int" /\ b.k = "Int"
    THEN (IF a.v < b.v THEN "Less" ELSE IF a.v > b.v THEN "Greater" ELSE "Equal")
    ELSE IF a.k = "Double" /\ b.k = "Double" THEN F64_partial_cmp(a.v, b.v)
    ELSE IF a.k = b.k
    THEN (IF a.v = b.v THEN "Equal"
          ELSE IF a.k = "Bool" /\ b.v THEN "Less"
          ELSE IF a.k = "String" /\ BLen(a.v) < BLen(b.v) THEN "Less"
          ELSE "Greater")
    ELSE "None"

\* impl PartialOrd for DBValue
DBValue_partial_cmp(a, b) ==
    IF a.k = "Int" /\ b.k = "Int"
    THEN (IF a.v < b.v THEN "Less" ELSE IF a.v > b.v THEN "Greater" ELSE "Equal")
    ELSE IF a.k = "Double" /\ b.k = "Double" THEN F64_partial_cmp(a.v, b.v)
    ELSE "None"

\* a WhereClause is [op, col, value], col counted from 0
tuple_matches(tuple, where_clause) ==
    LET Test(v, c) ==
          CASE where_clause.op = "Eq"  -> DBValue_eq(v, where_clause.value)
            [] where_clause.op = "Neq" -> ~DBValue_eq(v, where_clause.value)
            [] where_clause.op = "Lt"  -> c = "Less"
            [] where_clause.op = "Lte" -> c \in {"Less", "Equal"}
            [] where_clause.op = "Gt"  -> c = "Greater"
            [] where_clause.op = "Gte" -> c \in {"Greater", "Equal"}
    IN  Test(tuple[where_clause.col + 1],
             DBValue_partial_cmp(tuple[where_clause.col + 1], where_clause.value))

\* Option<WhereClause>: <<>> is None, <<clause>> is Some(clause)
Matches(tuple, where_opt) ==
    where_opt = <<>> \/ tuple_matches(tuple, where_opt[1])

\* Variant: for a column set more than once the first clause wins.
RECURSIVE SetColumns_first(_, _)
SetColumns_first(tuple, update_clauses) ==
    IF update_clauses = <<>> THEN tuple
    ELSE SetColumns_first(
             [tuple EXCEPT ![update_clauses[Len(update_clauses)][1] + 1] =
                               update_clauses[Len(update_clauses)][2]],
             SubSeq(update_clauses, 1, Len(update_clauses) - 1))

\* the update clauses applied in order to one tuple
RECURSIVE SetColumns(_, _)
SetColumns(tuple, update_clauses) ==
    IF update_clauses = <<>> THEN tuple
    ELSE SetColumns([tuple EXCEPT ![update_clauses[1][1] + 1] = update_clauses[1][2]],
                    Tail(update_clauses))

\* the first error of a scan, "Ok" when there is none
ScanResult(items) ==
    IF items # <<>> /\ items[Len(items)].res # "Ok" THEN items[Len(items)].res
    ELSE "Ok"

\* the rows of a scan that satisfy the predicate, in scan order
RECURSIVE Selected(_, _)
Selected(items, where_opt) ==
    IF items = <<>> THEN <<>>
    ELSE IF items[1].res = "Ok" /\ Matches(items[1].tuple, where_opt)
    THEN <<items[1]>> \o Selected(Tail(items), where_opt)
    ELSE Selected(Tail(items), where_opt)

\* what the page's iterator yields at a location of the table: the row there
\* if it is alive, nothing otherwise
RowUnder(pt, page_id, off) ==
    LET Here(x) == x.res = "Ok" /\ x.off = off
        Rows(g) == IF g.res # "Ok" THEN <<>> ELSE SelectSeq(Page_iter(g.page), Here)
    IN  Rows(get_page(pt, page_id))

\* execute_update's second loop: overwrite_tuple for each queued row, in
\* order, stopping at the first error.  [res, pt, calls]: calls lists every
\* overwrite_tuple call made, [page_id, off, tuple, res, at, was], was being
\* what the table held at the location when the call was made.
RECURSIVE ApplyUpdates(_, _, _)
ApplyUpdates(pt, queue, calls) ==
    LET Call(q, r, was) ==
          [page_id |-> q.page_id, off |-> q.off, tuple |-> q.tuple,
           res |-> r.res, at |-> r.val, was |-> was]
        Done(q, r, was) ==
          IF r.res # "Ok"
          THEN [res |-> r.res, pt |-> r.pt, calls |-> Append(calls, Call(q, r, was))]
          ELSE ApplyUpdates(r.pt, Tail(queue), Append(calls, Call(q, r, was)))
        One(q) ==
          CHOOSE a \in {Done(q, r, was) :
                           r \in {PageTable_overwrite_tuple(pt, q.page_id, q.off,
                                                            q.tuple)},
                           was \in {RowUnder(pt, q.page_id, q.off)}} : TRUE
    IN  IF queue = <<>> THEN [res |-> "Ok", pt |-> pt, calls |-> calls]
        ELSE One(queue[1])

\* Variant: each matching row is overwritten as soon as the scan reaches it,
\* and the scan goes on from there over the table as it then is.
RECURSIVE execute_update_inline(_, _, _)
execute_update_inline(pt, update_clauses, where_opt) ==
    LET After(items, loc) ==
          SelectSeq(items, LAMBDA x :
              x.res # "Ok" \/ x.page_id > loc[1]
                \/ (x.page_id = loc[1] /\ x.off > loc[2]))
        RECURSIVE Walk(_, _, _)
        Walk(p, loc, calls) ==
          LET Call(q, r) ==
                [page_id |-> q.page_id, off |-> q.off,
                 tuple |-> SetColumns(q.tuple, update_clauses),
                 res |-> r.res, at |-> r.val]
              Done(q, r) ==
                IF r.res # "Ok"
                THEN [res |-> r.res, val |-> 0, pt |-> r.pt,
                      calls |-> Append(calls, Call(q, r))]
                ELSE Walk(r.pt, <<q.page_id, q.off>>, Append(calls, Call(q, r)))
              One(q) ==
                Done(q, PageTable_overwrite_tuple(
                            p, q.page_id, q.off, SetColumns(q.tuple, update_clauses)))
              Rest(items) ==
                IF ScanResult(items) # "Ok"
                THEN [res |-> ScanResult(items), val |-> 0, pt |-> p, calls |-> calls]
                ELSE IF Selected(items, where_opt) = <<>>
                THEN [res |-> "Ok", val |-> Len(calls), pt |-> p, calls |-> calls]
                ELSE One(Selected(items, where_opt)[1])
          IN  Rest(After(PageTable_iter(p), loc))
    IN  Walk(pt, <<-1, -1>>, <<>>)

\* execute_update on the table's PageTable: [res, val, pt, calls], val the
\* returned count
execute_update(pt, update_clauses, where_opt) ==
    LET Queue(rows) ==
          [k \in 1..Len(rows) |->
              [page_id |-> rows[k].page_id, off |-> rows[k].off,
               tuple |-> SetColumns(rows[k].tuple, update_clauses)]]
        Ret(queue, a) ==
          [res |-> a.res, val |-> IF a.res = "Ok" THEN Len(queue) ELSE 0,
           pt |-> a.pt, calls |-> a.calls]
        Apply(queue) == Ret(queue, ApplyUpdates(pt, queue, <<>>))
        Scan(items) ==
          IF ScanResult(items) # "Ok"
          THEN [res |-> ScanResult(items), val |-> 0, pt |-> pt, calls |-> <<>>]
          ELSE Apply(Queue(Selected(items, where_opt)))
    IN  Scan(PageTable_iter(pt))

\* execute_delete's second loop
RECURSIVE ApplyDeletes(_, _, _)
ApplyDeletes(pt, queue, calls) ==
    LET Call(q, r, was) ==
          [page_id |-> q.page_id, off |-> q.off, res |-> r.res, was |-> was]
        Done(q, r, was) ==
          IF r.res # "Ok"
          THEN [res |-> r.res, pt |-> r.pt, calls |-> Append(calls, Call(q, r, was))]
          ELSE ApplyDeletes(r.pt, Tail(queue), Append(calls, Call(q, r, was)))
        One(q) ==
          CHOOSE a \in {Done(q, r, was) :
                           r \in {PageTable_delete_tuple(pt, q.page_id, q.off)},
                           was \in {RowUnder(pt, q.page_id, q.off)}} : TRUE
    IN  IF queue = <<>> THEN [res |-> "Ok", pt |-> pt, calls |-> calls]
        ELSE One(queue[1])

\* Variant: the first matching row is left out of the delete queue.
execute_delete_skip(pt, where_opt) ==
    LET Ret(queue, a) ==
          [res |-> a.res, val |-> IF a.res = "Ok" THEN Len(queue) ELSE 0,
           pt |-> a.pt, calls |-> a.calls]
        Apply(queue) ==
          Ret(queue, ApplyDeletes(pt, IF queue = <<>> THEN queue ELSE Tail(queue),
                                  <<>>))
        Scan(items) ==
          IF ScanResult(items) # "Ok"
          THEN [res |-> ScanResult(items), val |-> 0, pt |-> pt, calls |-> <<>>]
          ELSE Apply(Selected(items, where_opt))
    IN  Scan(PageTable_iter(pt))

\* Variant: every matching row is queued twice.
execute_delete_twice(pt, where_opt) ==
    LET Ret(queue, a) ==
          [res |-> a.res, val |-> IF a.res = "Ok" THEN Len(queue) ELSE 0,
           pt |-> a.pt, calls |-> a.calls]
        Apply(queue) == Ret(queue, ApplyDeletes(pt, queue \o queue, <<>>))
        Scan(items) ==
          IF ScanResult(items) # "Ok"
          THEN [res |-> ScanResult(items), val |-> 0, pt |-> pt, calls |-> <<>>]
          ELSE Apply(Selected(items, where_opt))
    IN  Scan(PageTable_iter(pt))

\* execute_delete: [res, val, pt, calls]
execute_delete(pt, where_opt) ==
    LET Ret(queue, a) ==
          [res |-> a.res, val |-> IF a.res = "Ok" THEN Len(queue) ELSE 0,
           pt |-> a.pt, calls |-> a.calls]
        Apply(queue) == Ret(queue, ApplyDeletes(pt, queue, <<>>))
        Scan(items) ==
          IF ScanResult(items) # "Ok"
          THEN [res |-> ScanResult(items), val |-> 0, pt |-> pt, calls |-> <<>>]
          ELSE Apply(Selected(items, where_opt))
    IN  Scan(PageTable_iter(pt))

---------------------------------------------------------------------------
(* table.rs, db.rs and operations.rs: the catalog and the statements *)

\* test::sample_table's columns: id, name, height, is_fox
sample_columns ==
    << [name |-> Bytes(<<105, 100>>), dtype |-> "Int"],
       [name |-> Bytes(<<110, 97, 109, 101>>), dtype |-> "String"],
       [name |-> Bytes(<<104, 101, 105, 103, 104, 116>>), dtype |-> "Double"],
       [name |-> Bytes(<<105, 115, 95, 102, 111, 120>>), dtype |-> "Bool"] >>

ColumnDef_write(c) ==
    BCat(write_string(c.name),
         Bytes(<<CASE c.dtype = "Bool" -> 0 [] c.dtype = "Int" -> 1
                   [] c.dtype = "Double" -> 2 [] c.dtype = "String" -> 3>>))

RECURSIVE Columns_write(_)
Columns_write(cs) ==
    IF cs = <<>> THEN <<>> ELSE BCat(ColumnDef_write(cs[1]), Columns_write(Tail(cs)))

\* a Table is [id, name, columns]
Table_write_metadata(t) ==
    BCat(write_u32(t.id),
         BCat(write_string(t.name),
              BCat(write_u32(Len(t.columns)), Columns_write(t.columns))))

\* the orders in which a HashMap holding the tables may iterate them
Orders(ts) ==
    {o \in [1..Cardinality(ts) -> ts] : \A i, j \in DOMAIN o : i # j => o[i] # o[j]}

RECURSIVE Tables_write(_)
Tables_write(o) ==
    IF o = <<>> THEN <<>> ELSE BCat(Table_write_metadata(o[1]), Tables_write(Tail(o)))

\* Variant: the table count is written before next_table_id.
save_metadata_swapped(d, order) ==
    [d EXCEPT !.metadata =
        BCat(write_u32(Cardinality(d.tables)),
             BCat(write_u32(d.next_table_id), Tables_write(order)))]

\* A DB is [tables, next_table_id, metadata, files]: tables the catalog map
\* (as the set of its Tables, one per name), metadata the bytes of the
\* metadata file, files the <id>.tbl files of the storage directory by id.
\* save_metadata rewrites the metadata file, the tables in iteration order.
save_metadata(d, order) ==
    [d EXCEPT !.metadata =
        BCat(write_u32(d.next_table_id),
             BCat(write_u32(Cardinality(d.tables)), Tables_write(order)))]

DB_init ==
    save_metadata([tables |-> {}, next_table_id |-> 0, metadata |-> <<>>,
                   files |-> <<>>], <<>>)

\* Readers give [ok, v, next]: the value read at position at and the position
\* after it.
ColumnDef_from_reader(r, at) ==
    LET Fail == [ok |-> FALSE, v |-> <<>>, next |-> at]
        Dtype(s, code) ==
          IF code > 3 THEN Fail
          ELSE [ok |-> TRUE,
                v |-> [name |-> s.v,
                       dtype |-> <<"Bool", "Int", "Double", "String">>[code + 1]],
                next |-> s.next + 1]
        Name(s) ==
          IF ~s.ok \/ ~Avail(r, s.next, 1) THEN Fail
          ELSE Dtype(s, read_u8(r, s.next))
    IN  Name(read_string(r, at))

RECURSIVE Columns_from_reader(_, _, _)
Columns_from_reader(r, at, n) ==
    LET Join(c, more) ==
          [ok |-> more.ok, v |-> <<c.v>> \o more.v, next |-> more.next]
        Cont(c) ==
          IF ~c.ok THEN [ok |-> FALSE, v |-> <<>>, next |-> at]
          ELSE Join(c, Columns_from_reader(r, c.next, n - 1))
    IN  IF n = 0 THEN [ok |-> TRUE, v |-> <<>>, next |-> at]
        ELSE Cont(ColumnDef_from_reader(r, at))

Table_from_reader(r, at) ==
    LET Fail == [ok |-> FALSE, v |-> <<>>, next |-> at]
        Cols(name, cs) ==
          IF ~cs.ok THEN Fail
          ELSE [ok |-> TRUE,
                v |-> [id |-> read_u32(r, at), name |-> name.v, columns |-> cs.v],
                next |-> cs.next]
        Name(name) ==
          IF ~name.ok \/ ~Avail(r, name.next, 4) \/ read_u32(r, name.next) < 0
          THEN Fail
          ELSE Cols(name, Columns_from_reader(r, name.next + 4,
                                              read_u32(r, name.next)))
    IN  IF ~Avail(r, at, 4) \/ read_u32(r, at) < 0 THEN Fail
        ELSE Name(read_string(r, at + 4))

\* the catalog map after n more tables are read and inserted under their
\* names (a later table replaces an earlier one of the same name)
RECURSIVE Tables_from_reader(_, _, _, _)
Tables_from_reader(r, at, n, tables) ==
    LET Insert(t) ==
          Tables_from_reader(r, t.next, n - 1,
                             {x \in tables : x.name # t.v.name} \cup {t.v})
        Cont(t) ==
          IF ~t.ok THEN [ok |-> FALSE, v |-> {}, next |-> at] ELSE Insert(t)
    IN  IF n = 0 THEN [ok |-> TRUE, v |-> tables, next |-> at]
        ELSE Cont(Table_from_reader(r, at))

\* DB::load from the bytes of the metadata file: [res, tables, next_table_id]
DB_load(metadata) ==
    LET Fail == [res |-> "IO", tables |-> {}, next_table_id |-> 0]
        Loaded(ts) ==
          IF ~ts.ok THEN Fail
          ELSE [res |-> "Ok", tables |-> ts.v,
                next_table_id |-> read_u32(metadata, 0)]
    IN  IF ~Avail(metadata, 0, 8) \/ read_u32(metadata, 4) < 0 THEN Fail
        ELSE Loaded(Tables_from_reader(metadata, 8, read_u32(metadata, 4), {}))

HasTable(d, name) == \E t \in d.tables : t.name = name

\* DB::get_table: [res, table]
get_table(d, name) ==
    IF HasTable(d, name)
    THEN [res |-> "Ok", table |-> CHOOSE t \in d.tables : t.name = name]
    ELSE [res |-> "Execution", table |-> [id |-> 0, name |-> name, columns |-> <<>>]]

\* Table::get_page_table: [res, pt], the handle PageTable::load opens on
\* the table's file
get_page_table(d, t) ==
    LET Open(l) == [res |-> l.res,
                    pt |-> [file |-> d.files[t.id], page_count |-> l.page_count]]
    IN  IF t.id \notin DOMAIN d.files
        THEN [res |-> "IO", pt |-> [file |-> <<>>, page_count |-> 0]]
        ELSE Open(PageTable_load(d.files[t.id]))

WithFile(d, id, f) ==
    [d EXCEPT !.files = [i \in DOMAIN d.files \cup {id} |->
                            IF i = id THEN f ELSE d.files[i]]]

WithoutFile(d, id) ==
    [d EXCEPT !.files = [i \in DOMAIN d.files \ {id} |-> d.files[i]]]

\* Variant: the new table takes the smallest id no table of the catalog has.
execute_create_table_reuse(d, table_name, cols) ==
    LET Free == CHOOSE i \in 0..Cardinality(d.tables) :
                    /\ \A t \in d.tables : t.id # i
                    /\ \A j \in 0..(i - 1) : \E t \in d.tables : t.id = j
        Add(t) ==
          [res |-> "Ok", val |-> 0,
           db |-> [WithFile(d, t.id, PageTable_init.file)
                     EXCEPT !.tables = @ \cup {t},
                            !.next_table_id = @ + 1]]
    IN  IF HasTable(d, table_name) THEN [res |-> "Execution", val |-> 0, db |-> d]
        ELSE IF Free \in DOMAIN d.files
        THEN [res |-> "Integrity", val |-> 0, db |-> d]
        ELSE Add([id |-> Free, name |-> table_name, columns |-> cols])

\* Variant: an existing name is replaced by the new table.
execute_create_table_replace(d, table_name, cols) ==
    LET Add(t) ==
          [res |-> "Ok", val |-> 0,
           db |-> [WithFile(d, t.id, PageTable_init.file)
                     EXCEPT !.tables = {u \in @ : u.name # table_name} \cup {t},
                            !.next_table_id = @ + 1]]
    IN  IF d.next_table_id \in DOMAIN d.files
        THEN [res |-> "Integrity", val |-> 0, db |-> d]
        ELSE Add([id |-> d.next_table_id, name |-> table_name, columns |-> cols])

\* operations.rs execute_create_table, up to its save_metadata call:
\* [res, val, db]
execute_create_table(d, table_name, cols) ==
    LET Add(t) ==
          [res |-> "Ok", val |-> 0,
           db |-> [WithFile(d, t.id, PageTable_init.file)
                     EXCEPT !.tables = @ \cup {t},
                            !.next_table_id = @ + 1]]
    IN  IF HasTable(d, table_name) THEN [res |-> "Execution", val |-> 0, db |-> d]
        ELSE IF d.next_table_id \in DOMAIN d.files
        THEN [res |-> "Integrity", val |-> 0, db |-> d]
        ELSE Add([id |-> d.next_table_id, name |-> table_name, columns |-> cols])

\* Variant: the table leaves the catalog but its file stays.
execute_drop_table_keep(d, table_name) ==
    LET Drop(t, h) ==
          IF h.res # "Ok" THEN [res |-> h.res, val |-> 0, db |-> d]
          ELSE [res |-> "Ok", val |-> 0,
                db |-> [d EXCEPT !.tables = @ \ {t}]]
        Found(g) ==
          IF g.res # "Ok" THEN [res |-> g.res, val |-> 0, db |-> d]
          ELSE Drop(g.table, get_page_table(d, g.table))
    IN  Found(get_table(d, table_name))

\* operations.rs execute_drop_table, up to its save_metadata call
execute_drop_table(d, table_name) ==
    LET Drop(t, h) ==
          IF h.res # "Ok" THEN [res |-> h.res, val |-> 0, db |-> d]
          ELSE [res |-> "Ok", val |-> 0,
                db |-> [WithoutFile(d, t.id) EXCEPT !.tables = @ \ {t}]]
        Found(g) ==
          IF g.res # "Ok" THEN [res |-> g.res, val |-> 0, db |-> d]
          ELSE Drop(g.table, get_page_table(d, g.table))
    IN  Found(get_table(d, table_name))

\* Variant: an INSERT into a table the catalog does not have creates it.
execute_insert_autocreate(d, table_name, values) ==
    LET Fail(e, dd) == [res |-> e, val |-> 0, db |-> dd]
        Ins(dd, t, r) ==
          IF r.res # "Ok" THEN Fail(r.res, dd)
          ELSE [res |-> "Ok", val |-> 1, db |-> WithFile(dd, t.id, r.pt.file)]
        Open(dd, t, h) ==
          IF h.res # "Ok" THEN Fail(h.res, dd)
          ELSE Ins(dd, t, PageTable_insert_tuple(h.pt, values))
        Check(dd, t) ==
          IF Len(values) # Len(t.columns) THEN Fail("Execution", dd)
          ELSE IF \E i \in 1..Len(values) :
                      DBValue_dtype(values[i]) # t.columns[i].dtype
          THEN Fail("Execution", dd)
          ELSE Open(dd, t, get_page_table(dd, t))
        Found(dd) == Check(dd, get_table(dd, table_name).table)
    IN  Found(IF HasTable(d, table_name) THEN d
              ELSE execute_create_table(d, table_name, sample_columns).db)

\* Variant: the row count is returned but the table file is left as it was.
execute_insert_unsaved(d, table_name, values) ==
    LET Fail(e) == [res |-> e, val |-> 0, db |-> d]
        Ins(t, r) ==
          IF r.res # "Ok" THEN Fail(r.res)
          ELSE [res |-> "Ok", val |-> 1, db |-> d]
        Open(t, h) ==
          IF h.res # "Ok" THEN Fail(h.res)
          ELSE Ins(t, PageTable_insert_tuple(h.pt, values))
        Check(t) ==
          IF Len(values) # Len(t.columns) THEN Fail("Execution")
          ELSE IF \E i \in 1..Len(values) :
                      DBValue_dtype(values[i]) # t.columns[i].dtype
          THEN Fail("Execution")
          ELSE Open(t, get_page_table(d, t))
        Found(g) == IF g.res # "Ok" THEN Fail(g.res) ELSE Check(g.table)
    IN  Found(get_table(d, table_name))

\* operations.rs execute_insert: [res, val, db], val the affected-row count
execute_insert(d, table_name, values) ==
    LET Fail(e) == [res |-> e, val |-> 0, db |-> d]
        Ins(t, r) ==
          IF r.res # "Ok" THEN Fail(r.res)
          ELSE [res |-> "Ok", val |-> 1, db |-> WithFile(d, t.id, r.pt.file)]
        Open(t, h) ==
          IF h.res # "Ok" THEN Fail(h.res)
          ELSE Ins(t, PageTable_insert_tuple(h.pt, values))
        Check(t) ==
          IF Len(values) # Len(t.columns) THEN Fail("Execution")
          ELSE IF \E i \in 1..Len(values) :
                      DBValue_dtype(values[i]) # t.columns[i].dtype
          THEN Fail("Execution")
          ELSE Open(t, get_page_table(d, t))
        Found(g) == IF g.res # "Ok" THEN Fail(g.res) ELSE Check(g.table)
    IN  Found(get_table(d, table_name))

\* the tuples of the rows a SelectIterator yields, all columns selected
RowTuples(items) == [k \in 1..Len(items) |-> items[k].tuple]

\* sql.rs compile_select and operations.rs execute_select with its iterator
\* drained: [res, val, db], val the rows
DB_select(d, table_name, where_opt) ==
    LET Fail(e) == [res |-> e, val |-> <<>>, db |-> d]
        Rows(items) ==
          [res |-> ScanResult(items), val |-> RowTuples(Selected(items, where_opt)),
           db |-> d]
        Open(h) == IF h.res # "Ok" THEN Fail(h.res) ELSE Rows(PageTable_iter(h.pt))
        Found(g) == IF g.res # "Ok" THEN Fail(g.res)
                    ELSE Open(get_page_table(d, g.table))
    IN  Found(get_table(d, table_name))

\* sql.rs compile_update and operations.rs execute_update on the named table
DB_update(d, table_name, update_clauses, where_opt) ==
    LET Fail(e) == [res |-> e, val |-> 0, db |-> d]
        Done(t, r) == [res |-> r.res, val |-> r.val,
                       db |-> WithFile(d, t.id, r.pt.file)]
        Open(t, h) == IF h.res # "Ok" THEN Fail(h.res)
                      ELSE Done(t, execute_update(h.pt, update_clauses, where_opt))
        Found(g) == IF g.res # "Ok" THEN Fail(g.res)
                    ELSE Open(g.table, get_page_table(d, g.table))
    IN  Found(get_table(d, table_name))

\* sql.rs compile_delete and operations.rs execute_delete on the named table
DB_delete(d, table_name, where_opt) ==
    LET Fail(e) == [res |-> e, val |-> 0, db |-> d]
        Done(t, r) == [res |-> r.res, val |-> r.val,
                       db |-> WithFile(d, t.id, r.pt.file)]
        Open(t, h) == IF h.res # "Ok" THEN Fail(h.res)
                      ELSE Done(t, execute_delete(h.pt, where_opt))
        Found(g) == IF g.res # "Ok" THEN Fail(g.res)
                    ELSE Open(g.table, get_page_table(d, g.table))
    IN  Found(get_table(d, table_name))

---------------------------------------------------------------------------
(* Inputs *)

\* page.rs test::create_tuple
create_tuple(id, name, height, is_fox) ==
    << [k |-> "Int", v |-> id], [k |-> "String", v |-> name],
       [k |-> "Double", v |-> height], [k |-> "Bool", v |-> is_fox] >>

\* the f64 1.0 and 1.874, as their big-endian bytes
F64_1 == <<63, 240, 0, 0, 0, 0, 0, 0>>
F64_1874 == <<63, 253, 251, 231, 108, 139, 67, 150>>

\* size of a tuple of the schema with an empty name
FixedSize == Tuple_size(create_tuple(0, <<>>, F64_1, TRUE))

\* a conforming tuple of exactly `size` bytes, its name `ch` repeated
TupleOfSize(id, ch, size, is_fox) ==
    create_tuple(id, Rep(ch, size - FixedSize), F64_1874, is_fox)

\* "smol": slot of 24 bytes
tS == create_tuple(1, Bytes(<<115, 109, 111, 108>>), F64_1, TRUE)
\* one byte longer than tS
tM == TupleOfSize(2, 98, Tuple_size(tS) + 1, FALSE)
\* two tL and one tS fill a page exactly; two tL and one tM miss by one byte
tL == TupleOfSize(-3, 99,
        (PAGE_DATA_SIZE - TupleHeader_size - Tuple_size(tS)) \div 2
          - TupleHeader_size, TRUE)
\* the largest tuple a page can hold: fills an empty page exactly
tXL == TupleOfSize(4, 100, PAGE_DATA_SIZE - TupleHeader_size, FALSE)

\* one byte more than any page can hold
tXXL == TupleOfSize(5, 101, PAGE_DATA_SIZE - TupleHeader_size + 1, TRUE)

PageTuples == {tS, tM, tL, tXL}
TableTuples == {tS, tL, tXL}

---------------------------------------------------------------------------
(* State *)

VARIABLES
    page,        \* the Page under test (page.rs tests: one Page in memory)
    file,        \* bytes of the table's data file
    page_count,  \* PageTable.page_count of the open handle
    slots,       \* oracle (the tests' tuples_map): one record per slot handed
                 \* out, [page_id, off, cap, tuple, alive, low], in creation order
    ret,         \* the last call: [op, arg, res, val]
    count,       \* [calls, inserts, deletes, overwrites]: calls made, and the
                 \* successful ones of each kind
    scan,        \* a table scan in progress: [it, out], the TableIterator and
                 \* what its next() calls have returned so far
    db,          \* the DB: [tables, next_table_id, metadata, files]
    writers      \* per concurrent writer, its insert_tuple call in progress;
                 \* in the step-by-step overwrite_tuple, that call's frame

vars == <<page, file, page_count, slots, ret, count, scan, db, writers>>

PT == [file |-> file, page_count |-> page_count]

\* the two processes that may write one table file, none of them started
Writers == {1, 2}
NoWriters ==
    [w \in Writers |-> [pc |-> "idle", tuple |-> <<>>, page_count |-> 0,
                        page |-> Page_new(0), res |-> "Ok", val |-> <<0, 0>>,
                        loaded_at |-> 0, done |-> 0, seen |-> <<>>]]

Init ==
    /\ page = Page_new(0)
    /\ file = PageTable_init.file
    /\ page_count = PageTable_init.page_count
    /\ slots = <<>>
    /\ ret = [op |-> "init", arg |-> <<>>, res |-> "Ok", val |-> <<>>]
    /\ count = [calls |-> 0, inserts |-> 0, deletes |-> 0, overwrites |-> 0]
    /\ scan = [it |-> TableIterator_new, out |-> <<>>]
    /\ db = DB_init
    /\ writers = NoWriters

\* oracle bookkeeping, from the calls' arguments and results only; cap is the
\* size of the tuple the slot was created for, low the smallest it has held
NewSlot(page_id, off, t) ==
    [page_id |-> page_id, off |-> off, cap |-> Tuple_size(t), tuple |-> t,
     alive |-> TRUE, low |-> Tuple_size(t)]

At(s, page_id, off) == s.page_id = page_id /\ s.off = off

Kill(ss, page_id, off) ==
    [k \in 1..Len(ss) |->
        IF At(ss[k], page_id, off) THEN [ss[k] EXCEPT !.alive = FALSE] ELSE ss[k]]

Put(ss, page_id, off, t) ==
    [k \in 1..Len(ss) |->
        IF At(ss[k], page_id, off) /\ ss[k].alive
        THEN [ss[k] EXCEPT !.tuple = t,
                           !.low = IF Tuple_size(t) < @ THEN Tuple_size(t) ELSE @]
        ELSE ss[k]]

Bump(ok, kind) ==
    [count EXCEPT !.calls = @ + 1, ![kind] = IF ok THEN @ + 1 ELSE @]

\* offsets insert_tuple has returned on the page
Returned == {slots[k].off : k \in 1..Len(slots)}

\* offsets that are no slot's: the start of the free region and the last byte
\* of the data region
Stray == {page.free_space_end, PAGE_DATA_SIZE - 1}

\* locations of the rows that have been deleted or moved away
DeadLocs ==
    {<<slots[k].page_id, slots[k].off>> : k \in {j \in 1..Len(slots) : ~slots[j].alive}}

---------------------------------------------------------------------------
(* Page calls (page.rs test_page, stress_test) *)

PInsert(t) ==
    /\ count.calls < MaxPageOps
    /\ \E r \in {Page_insert_tuple(page, t)} :
           /\ page' = r.page
           /\ ret' = [op |-> "insert", arg |-> <<>>, res |-> r.res, val |-> r.val]
           /\ slots' = IF r.res = "Ok"
                       THEN Append(slots, NewSlot(page.id, r.val, t)) ELSE slots
           /\ count' = Bump(r.res = "Ok", "inserts")
    /\ UNCHANGED <<file, page_count, scan, db, writers>>

POverwrite(off, t) ==
    /\ count.calls < MaxPageOps
    /\ \E r \in {Page_overwrite_tuple(page, off, t)} :
           /\ page' = r.page
           /\ ret' = [op |-> "overwrite", arg |-> <<page.id, off>>,
                      res |-> r.res, val |-> r.val]
           /\ slots' = IF r.res = "Ok" /\ r.val
                       THEN Put(slots, page.id, off, t) ELSE slots
           /\ count' = Bump(r.res = "Ok" /\ r.val, "overwrites")
    /\ UNCHANGED <<file, page_count, scan, db, writers>>

PMarkDead(off) ==
    /\ count.calls < MaxPageOps
    /\ \E r \in {Page_mark_tuple_dead(page, off)} :
           /\ page' = r.page
           /\ ret' = [op |-> "mark_dead", arg |-> <<page.id, off>>,
                      res |-> r.res, val |-> <<>>]
           /\ slots' = IF r.res = "Ok" THEN Kill(slots, page.id, off) ELSE slots
           /\ count' = Bump(r.res = "Ok", "deletes")
    /\ UNCHANGED <<file, page_count, scan, db, writers>>

NextPage ==
    \/ \E t \in PageTuples : PInsert(t)
    \/ \E off \in Returned : \E t \in PageTuples : POverwrite(off, t)
    \/ \E off \in Stray : POverwrite(off, tS)
    \/ \E off \in Returned : PMarkDead(off)

SpecPage == Init /\ [][NextPage]_vars

---------------------------------------------------------------------------
(* PageTable calls (page_table.rs stress_test; operations.rs) *)

\* locations of the rows a scan yields
Scanned ==
    LET Locs(it) ==
          {<<it[k].page_id, it[k].off>> : k \in {j \in 1..Len(it) : it[j].res = "Ok"}}
    IN  Locs(PageTable_iter(PT))

TInsert(t) ==
    /\ count.calls < MaxTableOps
    /\ \E r \in {PageTable_insert_tuple(PT, t)} :
           /\ file' = r.pt.file
           /\ page_count' = r.pt.page_count
           /\ ret' = [op |-> "insert", arg |-> <<Tuple_size(t)>>, res |-> r.res,
                      val |-> r.val]
           /\ slots' = IF r.res = "Ok"
                       THEN Append(slots, NewSlot(r.val[1], r.val[2], t)) ELSE slots
           /\ count' = Bump(r.res = "Ok", "inserts")
    /\ UNCHANGED <<page, scan, db, writers>>

TOverwrite(loc, t) ==
    /\ count.calls < MaxTableOps
    /\ \E r \in {PageTable_overwrite_tuple(PT, loc[1], loc[2], t)} :
           /\ file' = r.pt.file
           /\ page_count' = r.pt.page_count
           /\ ret' = [op |-> "overwrite", arg |-> <<loc[1], loc[2], Tuple_size(t)>>,
                      res |-> r.res, val |-> r.val]
           /\ slots' = IF r.res # "Ok" THEN slots
                       ELSE IF r.val = loc THEN Put(slots, loc[1], loc[2], t)
                       ELSE Append(Kill(slots, loc[1], loc[2]),
                                   NewSlot(r.val[1], r.val[2], t))
           /\ count' = Bump(r.res = "Ok", "overwrites")
    /\ UNCHANGED <<page, scan, db, writers>>

TDelete(loc) ==
    /\ count.calls < MaxTableOps
    /\ \E r \in {PageTable_delete_tuple(PT, loc[1], loc[2])} :
           /\ file' = r.pt.file
           /\ page_count' = r.pt.page_count
           /\ ret' = [op |-> "delete", arg |-> loc, res |-> r.res, val |-> <<>>]
           /\ slots' = IF r.res = "Ok" THEN Kill(slots, loc[1], loc[2]) ELSE slots
           /\ count' = Bump(r.res = "Ok", "deletes")
    /\ UNCHANGED <<page, scan, db, writers>>

Next ==
    \/ \E t \in TableTuples \cup {tXXL} : TInsert(t)
    \/ \E loc \in Scanned \cup DeadLocs : \E t \in TableTuples : TOverwrite(loc, t)
    \/ \E loc \in Scanned : TOverwrite(loc, tXXL)
    \/ \E loc \in Scanned : TDelete(loc)

Spec == Init /\ [][Next]_vars

\* Repeated deletes of the same rows: a few maximal rows, any location
\* insert_tuple has returned may be deleted again (delete_tuple does not look
\* at the slot's alive flag).
MaxWearOps == 10
MaxWearRows == 3

WInsert ==
    /\ count.calls < MaxWearOps
    /\ count.inserts < MaxWearRows
    /\ \E r \in {PageTable_insert_tuple(PT, tXL)} :
           /\ file' = r.pt.file
           /\ page_count' = r.pt.page_count
           /\ ret' = [op |-> "insert", arg |-> <<>>, res |-> r.res, val |-> r.val]
           /\ slots' = IF r.res = "Ok"
                       THEN Append(slots, NewSlot(r.val[1], r.val[2], tXL)) ELSE slots
           /\ count' = Bump(r.res = "Ok", "inserts")
    /\ UNCHANGED <<page, scan, db, writers>>

WDelete(loc) ==
    /\ count.calls < MaxWearOps
    /\ \E r \in {PageTable_delete_tuple(PT, loc[1], loc[2])} :
           /\ file' = r.pt.file
           /\ page_count' = r.pt.page_count
           /\ ret' = [op |-> "delete", arg |-> loc, res |-> r.res, val |-> <<>>]
           /\ slots' = IF r.res = "Ok" THEN Kill(slots, loc[1], loc[2]) ELSE slots
           /\ count' = Bump(r.res = "Ok", "deletes")
    /\ UNCHANGED <<page, scan, db, writers>>

NextWear ==
    \/ WInsert
    \/ \E loc \in Scanned \cup DeadLocs : WDelete(loc)

SpecWear == Init /\ [][NextWear]_vars

\* Table scans, one next() call at a time, over data files that are intact or
\* damaged outside the program: rows whose stored name is no longer UTF-8, or a
\* file that lost its last page after the handle was opened.
MaxScanCalls == 8
MaxDamaged == 2

RECURSIVE BuiltFrom(_, _)
BuiltFrom(pt, ts) ==
    IF ts = <<>> THEN pt
    ELSE CHOOSE b \in {BuiltFrom(q, Tail(ts)) :
                          q \in {PageTable_insert_tuple(pt, ts[1]).pt}} : TRUE

ScanBases ==
    {BuiltFrom(PageTable_init, <<tS, tM, tS>>),
     BuiltFrom(PageTable_init, <<tS, tL, tL, tM>>),
     BuiltFrom(PageTable_init, <<tXL, tS, tM>>),
     PageTable_delete_tuple(BuiltFrom(PageTable_init, <<tS, tM, tS>>), 0, 0).pt}

\* file position of the first byte of the name of the row at loc: page header,
\* slot header, the Int column, the string's length prefix
NameByte(loc) ==
    PAGE_SIZE * loc[1] + PAGE_HEADER_SIZE + loc[2] + TupleHeader_size + 4 + 4

RECURSIVE Damaged(_, _)
Damaged(f, locs) ==
    LET Hit(loc) ==
          CHOOSE d \in {Damaged(g, locs \ {loc}) :
                            g \in {FileWrite(f, NameByte(loc), Rep(255, 1))}} : TRUE
    IN  IF locs = {} THEN f ELSE Hit(CHOOSE loc \in locs : TRUE)

ScanTables(pt) ==
    LET Locs(it) == {<<it[k].page_id, it[k].off>> : k \in 1..Len(it)}
        Some(locs) ==
          {[file |-> Damaged(pt.file, S), page_count |-> pt.page_count] :
              S \in {X \in SUBSET locs : Cardinality(X) <= MaxDamaged}}
    IN  Some(Locs(PageTable_iter(pt)))
          \cup {[file |-> BTake(pt.file, BLen(pt.file) - PAGE_SIZE),
                 page_count |-> pt.page_count]}

InitScan ==
    /\ page = Page_new(0)
    /\ \E b \in ScanBases : \E pt \in ScanTables(b) :
           /\ file = pt.file
           /\ page_count = pt.page_count
    /\ slots = <<>>
    /\ ret = [op |-> "init", arg |-> <<>>, res |-> "Ok", val |-> <<>>]
    /\ count = [calls |-> 0, inserts |-> 0, deletes |-> 0, overwrites |-> 0]
    /\ scan = [it |-> TableIterator_new, out |-> <<>>]
    /\ db = DB_init
    /\ writers = NoWriters

ScanNext ==
    /\ Len(scan.out) < MaxScanCalls
    /\ ret.res # "panic"
    /\ \E r \in {TableIterator_next(PT, scan.it)} :
           /\ scan' = [it |-> r.it, out |-> Append(scan.out, r.item)]
           /\ ret' = [op |-> "next", arg |-> <<>>, res |-> r.item.res,
                      val |-> r.item]
    /\ count' = [count EXCEPT !.calls = @ + 1]
    /\ UNCHANGED <<page, file, page_count, slots, db, writers>>

NextScan == ScanNext

SpecScan == InitScan /\ [][NextScan]_vars

\* A caller that keeps calling next(): the call is made whenever ScanNext's
\* guard allows one (next() itself always returns), and every call counts.
ScanAsked ==
    /\ Len(scan.out) < MaxScanCalls
    /\ ret.res # "panic"
    /\ count' = [count EXCEPT !.calls = @ + 1]

SpecScanFair == SpecScan /\ WF_count(ScanAsked)

\* UPDATE and DELETE statements over tables filled by inserts.
MaxExecOps == 2

ExecBases ==
    {BuiltFrom(PageTable_init, <<tS, tM>>),
     BuiltFrom(PageTable_init, <<tS, tM, tS>>),
     BuiltFrom(PageTable_init, <<tS, tL, tL>>),
     BuiltFrom(PageTable_init, <<tS, tL, tL, tM>>)}

\* WHERE: none; id > 0; is_fox = true; id <= 1
ExecWheres ==
    {<<>>,
     << [op |-> "Gt", col |-> 0, value |-> [k |-> "Int", v |-> 0]] >>,
     << [op |-> "Eq", col |-> 3, value |-> [k |-> "Bool", v |-> TRUE]] >>,
     << [op |-> "Lte", col |-> 0, value |-> [k |-> "Int", v |-> 1]] >>}

\* SET: name = 'smolly' (longer than the short rows' names); id = 0, id = 5;
\* is_fox = false, name = 'ab'
ExecSets ==
    {<< <<1, [k |-> "String", v |-> Bytes(<<115, 109, 111, 108, 108, 121>>)]>> >>,
     << <<0, [k |-> "Int", v |-> 0]>>, <<0, [k |-> "Int", v |-> 5]>> >>,
     << <<3, [k |-> "Bool", v |-> FALSE]>>,
        <<1, [k |-> "String", v |-> Bytes(<<97, 98>>)]>> >>}

InitExec ==
    /\ page = Page_new(0)
    /\ \E b \in ExecBases :
           /\ file = b.file
           /\ page_count = b.page_count
    /\ slots = <<>>
    /\ ret = [op |-> "init", arg |-> <<>>, res |-> "Ok", val |-> <<>>]
    /\ count = [calls |-> 0, inserts |-> 0, deletes |-> 0, overwrites |-> 0]
    /\ scan = [it |-> TableIterator_new, out |-> <<>>]
    /\ db = DB_init
    /\ writers = NoWriters

\* ret.arg keeps the statement and the scan of the table before it ran,
\* ret.val the returned count and the page table calls made
XUpdate(update_clauses, where_opt) ==
    /\ count.calls < MaxExecOps
    /\ \E r \in {execute_update(PT, update_clauses, where_opt)} :
           /\ file' = r.pt.file
           /\ page_count' = r.pt.page_count
           /\ ret' = [op |-> "update",
                      arg |-> [set |-> update_clauses, where |-> where_opt,
                               before |-> PageTable_iter(PT)],
                      res |-> r.res,
                      val |-> [count |-> r.val, calls |-> r.calls]]
    /\ count' = [count EXCEPT !.calls = @ + 1]
    /\ UNCHANGED <<page, slots, scan, db, writers>>

XDelete(where_opt) ==
    /\ count.calls < MaxExecOps
    /\ \E r \in {execute_delete(PT, where_opt)} :
           /\ file' = r.pt.file
           /\ page_count' = r.pt.page_count
           /\ ret' = [op |-> "delete",
                      arg |-> [set |-> <<>>, where |-> where_opt,
                               before |-> PageTable_iter(PT)],
                      res |-> r.res,
                      val |-> [count |-> r.val, calls |-> r.calls]]
    /\ count' = [count EXCEPT !.calls = @ + 1]
    /\ UNCHANGED <<page, slots, scan, db, writers>>

NextExec ==
    \/ \E s \in ExecSets : \E w \in ExecWheres : XUpdate(s, w)
    \/ \E w \in ExecWheres : XDelete(w)

SpecExec == InitExec /\ [][NextExec]_vars

\* Statements against a storage directory: CREATE, DROP, INSERT, SELECT,
\* UPDATE and DELETE on two table names, every table with the sample schema.
MaxDbOps == 4

NameA == Bytes(<<97>>)
NameB == Bytes(<<98>>)
DbNames == {NameA, NameB}

\* VALUES lists: a row; one value short; a Bool where the Int belongs; a row
\* of the schema too long for a page
DbRows ==
    << tS,
       SubSeq(tS, 1, 3),
       <<[k |-> "Bool", v |-> TRUE]>> \o Tail(tS),
       tXXL >>

SomeOrder(d) == save_metadata(d, CHOOSE o \in Orders(d.tables) : TRUE)

\* the directory after the statements of stmts, <<"create", name>>,
\* <<"drop", name>> or <<"insert", name, values>>, run from d
RECURSIVE DbAfter(_, _)
DbAfter(d, stmts) ==
    LET Step(s) ==
          CASE s[1] = "create" ->
                 SomeOrder(execute_create_table(d, s[2], sample_columns).db)
            [] s[1] = "drop" -> SomeOrder(execute_drop_table(d, s[2]).db)
            [] s[1] = "insert" -> execute_insert(d, s[2], s[3]).db
    IN  IF stmts = <<>> THEN d
        ELSE CHOOSE b \in {DbAfter(q, Tail(stmts)) : q \in {Step(stmts[1])}} : TRUE

\* [db, dropped]: an empty directory; tables a (two rows) and b (one row);
\* table b alone, a having been created, filled and dropped
DbBases ==
    {[db |-> DB_init, dropped |-> <<>>],
     [db |-> DbAfter(DB_init, << <<"create", NameA>>, <<"create", NameB>>,
                                 <<"insert", NameA, tS>>, <<"insert", NameA, tM>>,
                                 <<"insert", NameB, tM>> >>),
      dropped |-> <<>>],
     [db |-> DbAfter(DB_init, << <<"create", NameA>>, <<"insert", NameA, tS>>,
                                 <<"create", NameB>>, <<"drop", NameA>> >>),
      dropped |-> <<[name |-> NameA, id |-> 0]>>]}

\* slots lists the tables dropped so far, [name, id]
InitDB ==
    /\ page = Page_new(0)
    /\ file = PageTable_init.file
    /\ page_count = PageTable_init.page_count
    /\ \E b \in DbBases :
           /\ db = b.db
           /\ slots = b.dropped
    /\ ret = [op |-> "init", arg |-> <<>>, res |-> "Ok", val |-> <<>>]
    /\ count = [calls |-> 0, inserts |-> 0, deletes |-> 0, overwrites |-> 0]
    /\ scan = [it |-> TableIterator_new, out |-> <<>>]
    /\ writers = NoWriters

\* ret.arg keeps the statement and the DB before it ran
DCreate(table_name) ==
    /\ count.calls < MaxDbOps
    /\ \E r \in {execute_create_table(db, table_name, sample_columns)} :
         \E o \in Orders(r.db.tables) :
           /\ db' = IF r.res = "Ok" THEN save_metadata(r.db, o) ELSE r.db
           /\ ret' = [op |-> "create",
                      arg |-> [table_name |-> table_name, before |-> db],
                      res |-> r.res, val |-> r.val]
    /\ count' = [count EXCEPT !.calls = @ + 1]
    /\ UNCHANGED <<page, file, page_count, slots, scan, writers>>

DDrop(table_name) ==
    /\ count.calls < MaxDbOps
    /\ \E r \in {execute_drop_table(db, table_name)} :
         \E o \in Orders(r.db.tables) :
           /\ db' = IF r.res = "Ok" THEN save_metadata(r.db, o) ELSE r.db
           /\ ret' = [op |-> "drop",
                      arg |-> [table_name |-> table_name, before |-> db],
                      res |-> r.res, val |-> r.val]
           /\ slots' = IF r.res = "Ok"
                       THEN Append(slots, [name |-> table_name,
                                           id |-> get_table(db, table_name).table.id])
                       ELSE slots
    /\ count' = [count EXCEPT !.calls = @ + 1]
    /\ UNCHANGED <<page, file, page_count, scan, writers>>

DInsert(table_name, values) ==
    /\ count.calls < MaxDbOps
    /\ \E r \in {execute_insert(db, table_name, values)} :
           /\ db' = r.db
           /\ ret' = [op |-> "insert",
                      arg |-> [table_name |-> table_name, before |-> db,
                               values |-> values],
                      res |-> r.res, val |-> r.val]
    /\ count' = [count EXCEPT !.calls = @ + 1]
    /\ UNCHANGED <<page, file, page_count, slots, scan, writers>>

DSelect(table_name, where_opt) ==
    /\ count.calls < MaxDbOps
    /\ \E r \in {DB_select(db, table_name, where_opt)} :
           /\ db' = r.db
           /\ ret' = [op |-> "select",
                      arg |-> [table_name |-> table_name, before |-> db],
                      res |-> r.res, val |-> r.val]
    /\ count' = [count EXCEPT !.calls = @ + 1]
    /\ UNCHANGED <<page, file, page_count, slots, scan, writers>>

DUpdate(table_name, update_clauses, where_opt) ==
    /\ count.calls < MaxDbOps
    /\ \E r \in {DB_update(db, table_name, update_clauses, where_opt)} :
           /\ db' = r.db
           /\ ret' = [op |-> "update",
                      arg |-> [table_name |-> table_name, before |-> db],
                      res |-> r.res, val |-> r.val]
    /\ count' = [count EXCEPT !.calls = @ + 1]
    /\ UNCHANGED <<page, file, page_count, slots, scan, writers>>

DDelete(table_name, where_opt) ==
    /\ count.calls < MaxDbOps
    /\ \E r \in {DB_delete(db, table_name, where_opt)} :
           /\ db' = r.db
           /\ ret' = [op |-> "delete",
                      arg |-> [table_name |-> table_name, before |-> db],
                      res |-> r.res, val |-> r.val]
    /\ count' = [count EXCEPT !.calls = @ + 1]
    /\ UNCHANGED <<page, file, page_count, slots, scan, writers>>

\* SELECT * FROM a WHERE is_fox >= true; UPDATE a SET name = 'smolly';
\* DELETE FROM a WHERE is_fox = true
NextDB ==
    \/ \E n \in DbNames : DCreate(n)
    \/ \E n \in DbNames : DDrop(n)
    \/ \E i \in 1..Len(DbRows) : DInsert(NameA, DbRows[i])
    \/ DInsert(NameB, tS)
    \/ DSelect(NameA, <<>>)
    \/ DSelect(NameA, << [op |-> "Gte", col |-> 3, value |-> [k |-> "Bool", v |-> TRUE]] >>)
    \/ DUpdate(NameA,
               << <<1, [k |-> "String", v |-> Bytes(<<115, 109, 111, 108, 108, 121>>)]>> >>,
               <<>>)
    \/ DDelete(NameA, << [op |-> "Eq", col |-> 3, value |-> [k |-> "Bool", v |-> TRUE]] >>)

SpecDB == InitDB /\ [][NextDB]_vars

\* Two processes insert into one table file without synchronization.  Each
\* has its own PageTable handle; an insert_tuple call is three steps, the
\* handle's load (file length), the read of the last page with the insert
\* into the in-memory copy, and the write of that copy by save_page.  A
\* writer is [pc, tuple, page_count, page, res, val, loaded_at, done, seen]:
\* seen lists its finished calls, [tuple, val, res, loaded_at, saved_at], the
\* times being the number of steps taken before.
MaxRaceInserts == 1

\* the n-th row of writer w: 21 bytes, or filling a page
RaceTuple(w, n, big) ==
    TupleOfSize(10 * w + n, 100 + w,
                IF big THEN PAGE_DATA_SIZE - TupleHeader_size ELSE Tuple_size(tS),
                w = 1)

Finished(wr, e, now) ==
    [wr EXCEPT !.pc = "done", !.res = e, !.done = @ + 1,
               !.seen = Append(@, [tuple |-> wr.tuple, val |-> wr.val, res |-> e,
                                   loaded_at |-> wr.loaded_at, saved_at |-> now])]

\* PageTable::load for an insert of t
Writer_open(f, wr, t) ==
    [wr EXCEPT !.pc = "opened", !.tuple = t,
               !.page_count = PageTable_load(f).page_count]

\* insert_tuple up to its save_page call: the page to save is kept in page
Writer_load(f, wr, now) ==
    LET Ins(r) ==
          IF r.res # "Ok" THEN Finished(wr, r.res, now)
          ELSE [wr EXCEPT !.pc = "loaded", !.page = r.page,
                          !.val = <<r.page.id, r.val>>, !.loaded_at = now]
        Pick(last) ==
          IF last.res # "Ok" THEN Finished(wr, last.res, now)
          ELSE Ins(Page_insert_tuple(
                      IF ~can_fit_tuple(last.page, wr.tuple)
                      THEN Page_new(wr.page_count) ELSE last.page, wr.tuple))
    IN  Pick(get_page([file |-> f, page_count |-> wr.page_count], wr.page_count - 1))

\* Variant: the save inserts the tuple into the file as it is now.
Writer_save_fresh(f, wr, now) ==
    LET Done(r) ==
          [file |-> r.pt.file,
           wr |-> Finished([wr EXCEPT !.page_count = r.pt.page_count, !.val = r.val],
                           "Ok", now)]
    IN  Done(PageTable_insert_tuple([file |-> f,
                                     page_count |-> PageTable_load(f).page_count],
                                    wr.tuple))

\* insert_tuple's save_page call and return: [file, wr]
Writer_save(f, wr, now) ==
    LET Done(pt) ==
          [file |-> pt.file,
           wr |-> Finished([wr EXCEPT !.page_count = pt.page_count], "Ok", now)]
    IN  Done(save_page([file |-> f, page_count |-> wr.page_count], wr.page))

RaceBases == {PageTable_init, BuiltFrom(PageTable_init, <<tS, tL>>)}

InitRace ==
    /\ page = Page_new(0)
    /\ \E b \in RaceBases :
           /\ file = b.file
           /\ page_count = b.page_count
    /\ slots = <<>>
    /\ ret = [op |-> "init", arg |-> <<>>, res |-> "Ok", val |-> <<>>]
    /\ count = [calls |-> 0, inserts |-> 0, deletes |-> 0, overwrites |-> 0]
    /\ scan = [it |-> TableIterator_new, out |-> <<>>]
    /\ db = DB_init
    /\ writers = NoWriters

WOpen(w, big) ==
    /\ writers[w].pc \in {"idle", "done"}
    /\ writers[w].done < MaxRaceInserts
    /\ writers' = [writers EXCEPT
                     ![w] = Writer_open(file, @, RaceTuple(w, @.done, big))]
    /\ ret' = [op |-> "open", arg |-> <<w>>, res |-> "Ok", val |-> <<>>]
    /\ count' = [count EXCEPT !.calls = @ + 1]
    /\ UNCHANGED <<page, file, page_count, slots, scan, db>>

WLoad(w) ==
    /\ writers[w].pc = "opened"
    /\ writers' = [writers EXCEPT ![w] = Writer_load(file, @, count.calls)]
    /\ ret' = [op |-> "load", arg |-> <<w>>, res |-> "Ok", val |-> <<>>]
    /\ count' = [count EXCEPT !.calls = @ + 1]
    /\ UNCHANGED <<page, file, page_count, slots, scan, db>>

WSave(w) ==
    /\ writers[w].pc = "loaded"
    /\ \E r \in {Writer_save(file, writers[w], count.calls)} :
           /\ file' = r.file
           /\ writers' = [writers EXCEPT ![w] = r.wr]
           /\ ret' = [op |-> "save", arg |-> <<w>>, res |-> r.wr.res,
                      val |-> r.wr.val]
    /\ count' = [count EXCEPT !.calls = @ + 1]
    /\ UNCHANGED <<page, page_count, slots, scan, db>>

NextRace ==
    \/ \E w \in Writers : \E big \in BOOLEAN : WOpen(w, big)
    \/ \E w \in Writers : WLoad(w)
    \/ \E w \in Writers : WSave(w)

SpecRace == InitRace /\ [][NextRace]_vars

\* Tuple and predicate functions on their own: a tuple of the schema, written
\* and read back, or tested against a WHERE clause.
MaxValueOps == 1

F64_NaN == <<127, 248, 0, 0, 0, 0, 0, 0>>
F64_neg0 == <<128, 0, 0, 0, 0, 0, 0, 0>>
I32_MAX == 2147483647
I32_MIN == (-2147483647) - 1

ValueTuples ==
    {create_tuple(id, name, height, is_fox) :
        id \in {0, -1, I32_MAX, I32_MIN},
        name \in {<<>>, tS[2].v, Rep(99, 300)},
        height \in {F64_1, F64_NaN, F64_neg0},
        is_fox \in BOOLEAN}

\* clauses on each column of the schema, and on an Int column against a
\* Double and a String column against a Bool
ValueWheres ==
    << <<0, [k |-> "Int", v |-> 0]>>,
       <<1, [k |-> "String", v |-> tS[2].v]>>,
       <<2, [k |-> "Double", v |-> F64_1]>>,
       <<3, [k |-> "Bool", v |-> TRUE]>>,
       <<0, [k |-> "Double", v |-> F64_1]>>,
       <<1, [k |-> "Bool", v |-> FALSE]>> >>

WhereOps == {"Eq", "Neq", "Lt", "Lte", "Gt", "Gte"}

InitValues ==
    /\ page = Page_new(0)
    /\ file = PageTable_init.file
    /\ page_count = PageTable_init.page_count
    /\ slots = <<>>
    /\ \E t \in ValueTuples :
           ret = [op |-> "init", arg |-> [tuple |-> t, where |-> <<>>],
                  res |-> "Ok", val |-> <<>>]
    /\ count = [calls |-> 0, inserts |-> 0, deletes |-> 0, overwrites |-> 0]
    /\ scan = [it |-> TableIterator_new, out |-> <<>>]
    /\ db = DB_init
    /\ writers = NoWriters

\* Tuple::write into an empty buffer, then Tuple::read over what was written
VRoundTrip ==
    /\ count.calls < MaxValueOps
    /\ \E w \in {Tuple_write(ret.arg.tuple)} :
         \E r \in {Tuple_read(w.bytes, 0)} :
           ret' = [op |-> "roundtrip",
                   arg |-> [tuple |-> ret.arg.tuple, where |-> <<>>],
                   res |-> IF w.err # "Ok" THEN w.err
                           ELSE IF ~r.ok THEN "IO" ELSE "Ok",
                   val |-> [size |-> Tuple_size(ret.arg.tuple), bytes |-> w.bytes,
                            tuple |-> r.tuple, next |-> r.next]]
    /\ count' = [count EXCEPT !.calls = @ + 1]
    /\ UNCHANGED <<page, file, page_count, slots, scan, db, writers>>

VMatch(where_clause) ==
    /\ count.calls < MaxValueOps
    /\ ret' = [op |-> "match",
               arg |-> [tuple |-> ret.arg.tuple, where |-> <<where_clause>>],
               res |-> "Ok",
               val |-> tuple_matches(ret.arg.tuple, where_clause)]
    /\ count' = [count EXCEPT !.calls = @ + 1]
    /\ UNCHANGED <<page, file, page_count, slots, scan, db, writers>>

NextValues ==
    \/ VRoundTrip
    \/ \E o \in WhereOps : \E i \in 1..Len(ValueWheres) :
           VMatch([op |-> o, col |-> ValueWheres[i][1], value |-> ValueWheres[i][2]])

SpecValues == InitValues /\ [][NextValues]_vars

---------------------------------------------------------------------------
(* overwrite_tuple step by step over tables of one and two pages *)

MaxRelocOps == 1

\* a long row whose first value is a Bool where the schema has an Int
tBadL == <<[k |-> "Bool", v |-> TRUE]>> \o Tail(tL)

RelocTuples == <<tM, tL, tXXL, tBadL>>

\* one page with room; a full page 0 and a second page; page 0 with room and
\* a second page; one page with a deleted row; one full page
RelocBases ==
    {BuiltFrom(PageTable_init, <<tS, tM>>),
     BuiltFrom(PageTable_init, <<tS, tL, tL, tM>>),
     BuiltFrom(PageTable_init, <<tS, tL, tS, tL>>),
     PageTable_delete_tuple(BuiltFrom(PageTable_init, <<tS, tM>>), 0, 0).pt,
     BuiltFrom(PageTable_init, <<tL, tL, tS>>)}

\* the scanned rows' locations, the first slot, a page id past the last page
\* and an offset past the data region
RelocLocs == Scanned \cup {<<0, 0>>, <<page_count, 0>>, <<0, PAGE_DATA_SIZE>>}

InitReloc ==
    /\ page = Page_new(0)
    /\ \E b \in RelocBases :
           /\ file = b.file
           /\ page_count = b.page_count
    /\ slots = <<>>
    /\ ret = [op |-> "init", arg |-> <<>>, res |-> "Ok", val |-> <<>>]
    /\ count = [calls |-> 0, inserts |-> 0, deletes |-> 0, overwrites |-> 0]
    /\ scan = [it |-> TableIterator_new, out |-> <<>>]
    /\ db = DB_init
    /\ writers = NoFrame

\* ret.arg keeps the call's arguments and the page table it was made on
RelocArg(page_id, offset, i) ==
    [page_id |-> page_id, offset |-> offset, tuple |-> i, before |-> PT]

Stepped(s) ==
    /\ file' = s.pt.file
    /\ page_count' = s.pt.page_count
    /\ writers' = s.fr
    /\ ret' = [ret EXCEPT !.res = IF s.fr.pc = "done" THEN s.fr.err ELSE "running",
                          !.val = s.fr.res]

RBegin(loc, i) ==
    /\ writers.pc = "done"
    /\ count.calls < MaxRelocOps
    /\ \E s \in {overwrite_tuple_begin(PT, loc[1], loc[2], RelocTuples[i])} :
           /\ file' = s.pt.file
           /\ page_count' = s.pt.page_count
           /\ writers' = s.fr
           /\ ret' = [op |-> "overwrite", arg |-> RelocArg(loc[1], loc[2], i),
                      res |-> IF s.fr.pc = "done" THEN s.fr.err ELSE "running",
                      val |-> s.fr.res]
    /\ count' = Bump(TRUE, "overwrites")
    /\ UNCHANGED <<page, slots, scan, db>>

RInsert ==
    /\ writers.pc = "insert"
    /\ \E s \in {overwrite_tuple_insert(PT, writers, RelocTuples[ret.arg.tuple])} :
           Stepped(s)
    /\ UNCHANGED <<page, slots, count, scan, db>>

RSave ==
    /\ writers.pc = "save"
    /\ \E s \in {overwrite_tuple_save(PT, writers)} : Stepped(s)
    /\ UNCHANGED <<page, slots, count, scan, db>>

RInsertTuple(i) ==
    /\ writers.pc = "done"
    /\ count.calls < MaxRelocOps
    /\ \E r \in {PageTable_insert_tuple(PT, RelocTuples[i])} :
           /\ file' = r.pt.file
           /\ page_count' = r.pt.page_count
           /\ ret' = [op |-> "insert", arg |-> RelocArg(0, 0, i), res |-> r.res,
                      val |-> r.val]
    /\ count' = Bump(TRUE, "inserts")
    /\ UNCHANGED <<page, slots, scan, db, writers>>

RDelete(loc) ==
    /\ writers.pc = "done"
    /\ count.calls < MaxRelocOps
    /\ \E r \in {PageTable_delete_tuple(PT, loc[1], loc[2])} :
           /\ file' = r.pt.file
           /\ page_count' = r.pt.page_count
           /\ ret' = [op |-> "delete", arg |-> RelocArg(loc[1], loc[2], 1),
                      res |-> r.res, val |-> r.val]
    /\ count' = Bump(TRUE, "deletes")
    /\ UNCHANGED <<page, slots, scan, db, writers>>

NextReloc ==
    \/ \E loc \in RelocLocs : \E i \in 1..Len(RelocTuples) : RBegin(loc, i)
    \/ RInsert
    \/ RSave
    \/ \E i \in 1..Len(RelocTuples) : RInsertTuple(i)
    \/ \E loc \in RelocLocs : RDelete(loc)

SpecReloc == InitReloc /\ [][NextReloc]_vars

---------------------------------------------------------------------------
(* Oracle views (the tests' validate_tuples) *)

IsAlive(s) == s.alive

AliveSlots == SelectSeq(slots, IsAlive)

\* what a page's iterator, and a table scan, should yield for an oracle row
PageRow(s) == [res |-> "Ok", off |-> s.off, tuple |-> s.tuple]

TableRow(s) ==
    [res |-> "Ok", page_id |-> s.page_id, off |-> s.off, tuple |-> s.tuple]

\* strict lexicographic order on (page_id, off)
Before(a, b) == a.page_id < b.page_id \/ (a.page_id = b.page_id /\ a.off < b.off)

AllOk(it) == \A k \in 1..Len(it) : it[k].res = "Ok"

\* The slot headers met walking the data region from offset by 3 + len while
\* below free_space_end (the walk of PageIterator::next, headers only)
RECURSIVE SlotWalk(_, _)
SlotWalk(p, offset) ==
    LET Step(h) ==
          IF ~h.ok THEN << [off |-> offset, ok |-> FALSE] >>
          ELSE << [off |-> offset, ok |-> TRUE, alive |-> h.alive, len |-> h.len] >>
                 \o SlotWalk(p, offset + TupleHeader_size + h.len)
    IN  IF offset >= p.free_space_end THEN <<>>
        ELSE Step(TupleHeader_from_reader(p.data, offset))

---------------------------------------------------------------------------
(* Claims *)

\* C1: from PageTable::init, after any sequence of insert_tuple and delete_tuple
\* calls (deletes on alive rows), the scan yields exactly one (page_id,
\* slot_offset, tuple) triple per inserted-and-not-deleted row, at the location
\* its insert returned and with the tuple inserted, and nothing else.
C1_ScanEqualsOracle ==
    count.overwrites = 0 =>
      LET Same(it, rows) ==
            /\ AllOk(it)
            /\ Len(it) = Len(AliveSlots)
            /\ Cardinality(rows) = Len(AliveSlots)
            /\ {it[k] : k \in 1..Len(it)} = rows
      IN  Same(PageTable_iter(PT),
               {TableRow(AliveSlots[k]) : k \in 1..Len(AliveSlots)})

\* inserts and deletes only, rows on more than one page, a row deleted
C1_Witness ==
    /\ count.overwrites = 0
    /\ count.deletes >= 1
    /\ Len(AliveSlots) >= 2
    /\ page_count >= 2
    /\ ret.op \in {"insert", "delete"}

\* C2: for a single Page, after any sequence of insert_tuple, overwrite_tuple
\* and mark_tuple_dead calls (mark_dead on offsets insert_tuple returned),
\* iterating the page yields exactly the tuples inserted minus those marked
\* dead, each with its current contents, in insertion order, which is ascending
\* slot offset.
C2_PageIterEqualsOracle ==
    /\ Page_iter(page) = [k \in 1..Len(AliveSlots) |-> PageRow(AliveSlots[k])]
    /\ \A j, k \in 1..Len(AliveSlots) :
          j < k => AliveSlots[j].off < AliveSlots[k].off

\* a page with a dead slot, and an alive slot whose tuple was overwritten
C2_Witness ==
    /\ page.free_space_end > 0
    /\ \E k \in 1..Len(slots) : ~slots[k].alive
    /\ \E k \in 1..Len(slots) : slots[k].alive /\ slots[k].low < slots[k].cap

\* C3: across successful PageTable insert_tuple, overwrite_tuple and
\* delete_tuple calls on alive rows, the number of tuples a full scan yields is
\* inserts minus deletes; an overwrite, in place or relocating within the page
\* or to another page, leaves the count unchanged.
C3_ScanCount ==
    LET Counted(it) ==
          /\ AllOk(it)
          /\ Len(it) = count.inserts - count.deletes
    IN  Counted(PageTable_iter(PT))

\* the last call was an overwrite that relocated its row to another page
C3_Witness ==
    /\ ret.op = "overwrite"
    /\ ret.res = "Ok"
    /\ ret.val[1] # ret.arg[1]
    /\ count.inserts > count.deletes

\* C4: a scan yields the alive rows in strictly increasing lexicographic order of
\* (page_id, slot_offset), page k before page k+1 and ascending offset within a
\* page; dead slots are never yielded.
C4_ScanOrdered ==
    LET Ordered(it) ==
          /\ AllOk(it)
          /\ \A j, k \in 1..Len(it) : j < k => Before(it[j], it[k])
          /\ \A k \in 1..Len(it) : \A d \in 1..Len(slots) :
                At(slots[d], it[k].page_id, it[k].off) => slots[d].alive
    IN  Ordered(PageTable_iter(PT))

\* rows on two pages, a dead slot, and a row created later than another but
\* located before it (a relocation within an earlier page)
C4_Witness ==
    /\ page_count >= 2
    /\ \E d \in 1..Len(slots) : ~slots[d].alive
    /\ \E j, k \in 1..Len(slots) :
          /\ j < k
          /\ slots[j].alive /\ slots[k].alive
          /\ Before(slots[k], slots[j])

\* C5: for an alive slot at an in-bounds offset and a schema-conforming tuple,
\* Page.overwrite_tuple returns true iff tuple.size() is at most the len the
\* slot's header got when the slot was created; when it returns false the page
\* is not mutated at all.
C5_OverwriteIffFits ==
    \A k \in 1..Len(slots) : \A t \in PageTuples :
        slots[k].alive =>
          LET Holds(r) ==
                /\ r.res = "Ok"
                /\ r.val <=> Tuple_size(t) <= slots[k].cap
                /\ ~r.val => r.page = page
          IN  Holds(Page_overwrite_tuple(page, slots[k].off, t))

\* the last call was an overwrite that returned false, after one that
\* returned true
C5_Witness ==
    /\ ret.op = "overwrite"
    /\ ret.res = "Ok"
    /\ ret.val = FALSE
    /\ count.overwrites >= 1

\* C6: a slot's header len is its capacity and never changes after the slot is
\* created: after shrinking in-place overwrites, an overwrite with a tuple of
\* any size up to the original length still succeeds in place, and one with a
\* larger tuple still returns false.
C6_SlotLenIsCapacity ==
    \A k \in 1..Len(slots) :
        /\ TupleHeader_from_reader(page.data, slots[k].off).len = slots[k].cap
        /\ (slots[k].alive /\ slots[k].low < slots[k].cap) =>
              \A t \in PageTuples :
                  Page_overwrite_tuple(page, slots[k].off, t).val
                    <=> Tuple_size(t) <= slots[k].cap

\* the last call overwrote in place, back to full capacity, a slot that had
\* held a smaller tuple
C6_Witness ==
    /\ ret.op = "overwrite"
    /\ ret.res = "Ok"
    /\ ret.val = TRUE
    /\ \E k \in 1..Len(slots) :
          /\ At(slots[k], ret.arg[1], ret.arg[2])
          /\ slots[k].low < slots[k].cap
          /\ Tuple_size(slots[k].tuple) = slots[k].cap

\* C7: dead space is never reused: every successful Page.insert_tuple returns
\* an offset strictly greater than every offset returned before on the page,
\* whatever mark_tuple_dead or overwrite_tuple calls intervene; the offset is
\* free_space_end before the insert, which then grows by exactly
\* 3 + tuple.size().
C7_InsertAppends ==
    /\ \A j, k \in 1..Len(slots) : j < k => slots[j].off < slots[k].off
    /\ \A t \in PageTuples :
          LET Holds(r) ==
                r.res = "Ok" =>
                  /\ r.val = page.free_space_end
                  /\ r.page.free_space_end = page.free_space_end + 3 + Tuple_size(t)
                  /\ \A k \in 1..Len(slots) : slots[k].off < r.val
          IN  Holds(Page_insert_tuple(page, t))

\* the last call was a successful insert on a page that holds dead space
C7_Witness ==
    /\ ret.op = "insert"
    /\ ret.res = "Ok"
    /\ page.dead_space > 0
    /\ \E k \in 1..Len(slots) : ~slots[k].alive /\ slots[k].off < ret.val

\* C8: Page.insert_tuple (of a tuple of the schema) succeeds iff
\* PAGE_DATA_SIZE - free_space_end >= 3 + tuple.size(), a tuple that exactly
\* fills the remaining space being accepted; otherwise it returns an Integrity
\* error and leaves free_space_end, dead_space and the iteration contents
\* unchanged.
C8_InsertIffFits ==
    \A t \in PageTuples :
          LET Holds(r) ==
                /\ r.res = "Ok"
                     <=> PAGE_DATA_SIZE - page.free_space_end >= 3 + Tuple_size(t)
                /\ r.res # "Ok" =>
                     /\ r.res = "Integrity"
                     /\ r.page.free_space_end = page.free_space_end
                     /\ r.page.dead_space = page.dead_space
                     /\ Page_iter(r.page) = Page_iter(page)
          IN  Holds(Page_insert_tuple(page, t))

\* the last insert was refused for one byte, on a page whose free space tS
\* fills exactly
C8_Witness ==
    /\ ret.op = "insert"
    /\ ret.res = "Integrity"
    /\ free_space(page) = 3 + Tuple_size(tS)
    /\ Page_insert_tuple(page, tS).res = "Ok"

\* C9 as stated: in every reachable page state free_space_end <= 8180.
C9_AsStated == page.free_space_end <= 8180

\* C9: in every reachable page state free_space_end <= PAGE_DATA_SIZE, where
\* PAGE_DATA_SIZE is 8184 bytes (PAGE_SIZE 8192 less the 8-byte page header).
C9_FreeSpaceEndBounded ==
    /\ page.free_space_end <= PAGE_DATA_SIZE
    /\ PAGE_DATA_SIZE = 8184

\* a page filled to its last byte by a successful insert
C9_Witness ==
    /\ ret.op = "insert"
    /\ ret.res = "Ok"
    /\ page.free_space_end = PAGE_DATA_SIZE

\* C10: in every page state reachable by successful insert_tuple,
\* overwrite_tuple and mark_tuple_dead calls with in-bounds offsets, a second
\* mark_tuple_dead on the same slot included, dead_space <= free_space_end.
C10_DeadSpaceBounded == page.dead_space <= page.free_space_end

\* C11 as stated: every slot in [0, free_space_end) has a valid header, and for
\* an alive slot len equals the serialized size of the tuple the iterator yields
\* for it.
C11_AsStated ==
    LET LenIsSize(w, it) ==
          /\ \A k \in 1..Len(w) : w[k].ok
          /\ \A k \in 1..Len(it) : \A j \in 1..Len(w) :
                (it[k].res = "Ok" /\ w[j].off = it[k].off) =>
                   w[j].len = Tuple_size(it[k].tuple)
    IN  LenIsSize(SlotWalk(page, 0), Page_iter(page))

\* C11: every slot in [0, free_space_end) has a valid header; the slots tile
\* [0, free_space_end) exactly; a slot's len is the serialized size of the tuple
\* it was created for, and the tuple an alive slot currently holds is at most
\* that long.
C11_SlotHeadersValid ==
    LET Valid(w) ==
          /\ Len(w) = Len(slots)
          /\ \A k \in 1..Len(w) :
                /\ w[k].ok
                /\ w[k].off = slots[k].off
                /\ w[k].alive = slots[k].alive
                /\ w[k].len = slots[k].cap
                /\ slots[k].alive => Tuple_size(slots[k].tuple) <= w[k].len
                /\ w[k].off + 3 + w[k].len
                     = IF k < Len(w) THEN w[k + 1].off ELSE page.free_space_end
          /\ (w = <<>>) => page.free_space_end = 0
    IN  Valid(SlotWalk(page, 0))

\* the last call overwrote a slot in place with a tuple shorter than the slot
C11_Witness ==
    /\ ret.op = "overwrite"
    /\ ret.res = "Ok"
    /\ ret.val = TRUE
    /\ \E k \in 1..Len(slots) :
          /\ At(slots[k], ret.arg[1], ret.arg[2])
          /\ Tuple_size(slots[k].tuple) < slots[k].cap

\* C12: for any page state and any tuple that fits, insert_tuple followed by
\* mark_tuple_dead on the returned offset leaves the sequence the iterator
\* yields identical to the one before the insert, while free_space_end and
\* dead_space have each grown by 3 + tuple.size().
C12_InsertThenMarkDead ==
    LET Undone(before, t, i, m) ==
          /\ i.res = "Ok"
          /\ m.res = "Ok"
          /\ Page_iter(m.page) = before
          /\ m.page.free_space_end = page.free_space_end + 3 + Tuple_size(t)
          /\ m.page.dead_space = page.dead_space + 3 + Tuple_size(t)
        Marked(before, t, i) ==
          Undone(before, t, i, Page_mark_tuple_dead(i.page, i.val))
        All(before) ==
          \A t \in PageTuples :
              can_fit_tuple(page, t) =>
                  Marked(before, t, Page_insert_tuple(page, t))
    IN  All(Page_iter(page))

\* the last call marked dead, once, the slot inserted last, on a page that
\* still holds alive rows
C12_Witness ==
    /\ ret.op = "mark_dead"
    /\ ret.res = "Ok"
    /\ Len(slots) >= 2
    /\ ret.arg[2] = slots[Len(slots)].off
    /\ page.dead_space = 3 + slots[Len(slots)].cap
    /\ Len(AliveSlots) = Len(slots) - 1

\* C13 as stated: Page.overwrite_tuple returns an Integrity error and leaves
\* the page unchanged whenever the offset is >= PAGE_DATA_SIZE, or is a slot
\* marked dead, or lies at or beyond free_space_end in the zeroed free region.
C13_AsStated ==
    \A t \in PageTuples :
      \A off \in Returned \cup
                 {page.free_space_end, PAGE_DATA_SIZE - 3, PAGE_DATA_SIZE - 2,
                  PAGE_DATA_SIZE - 1, PAGE_DATA_SIZE, U16 - 1} :
        (\/ off >= PAGE_DATA_SIZE
         \/ off >= page.free_space_end
         \/ \E k \in 1..Len(slots) : slots[k].off = off /\ ~slots[k].alive) =>
          LET Refused(r) == r.res = "Integrity" /\ r.page = page
          IN  Refused(Page_overwrite_tuple(page, off, t))

\* C13, the part that holds of the page: the same with the offsets whose
\* 3-byte header does not fit in the data region set apart; for those the
\* error is an IO error.  The page is unchanged in every case.
C13_OverwriteRefused ==
    \A t \in PageTuples :
      \A off \in Returned \cup
                 {page.free_space_end, PAGE_DATA_SIZE - 3, PAGE_DATA_SIZE - 2,
                  PAGE_DATA_SIZE - 1, PAGE_DATA_SIZE, U16 - 1} :
        (\/ off >= PAGE_DATA_SIZE
         \/ off >= page.free_space_end
         \/ \E k \in 1..Len(slots) : slots[k].off = off /\ ~slots[k].alive) =>
          LET Refused(r) ==
                /\ r.page = page
                /\ r.res = IF off < PAGE_DATA_SIZE /\ off + 3 > PAGE_DATA_SIZE
                           THEN "IO" ELSE "Integrity"
          IN  Refused(Page_overwrite_tuple(page, off, t))

\* C13, the consequence for the table: PageTable.overwrite_tuple on the
\* location of a deleted (or moved) row fails with an Integrity error and
\* leaves the file and page_count as they were.
C13_DeletedRowOverwrite ==
    \A loc \in DeadLocs : \A t \in TableTuples :
        LET Refused(r) == r.res = "Integrity" /\ r.pt = PT
        IN  Refused(PageTable_overwrite_tuple(PT, loc[1], loc[2], t))

\* the last call was an overwrite at the last byte of the data region, inside
\* the zeroed free region, and it returned an IO error
C13_Witness ==
    /\ ret.op = "overwrite"
    /\ ret.res = "IO"
    /\ ret.arg[2] = PAGE_DATA_SIZE - 1
    /\ page.free_space_end <= PAGE_DATA_SIZE - 3

\* C14: for every page state, the serialized form of the page (id u32,
\* free_space_end u16, dead_space u16, data region) is exactly
\* PAGE_SIZE = 8192 bytes long.
C14_SerializedPageSize ==
    /\ BLen(Page_write(page)) = PAGE_SIZE
    /\ BLen(Page_write(page)) = 8192

\* a full page with a dead slot
C14_Witness ==
    /\ page.free_space_end = PAGE_DATA_SIZE
    /\ page.dead_space > 0
    /\ Len(AliveSlots) >= 1

\* the page a fresh PageTable::load of the file followed by get_page(id) gives
Reloaded(f, id) ==
    LET Open(l) ==
          IF l.res # "Ok" THEN [res |-> l.res, page |-> Page_new(0)]
          ELSE get_page([file |-> f, page_count |-> l.page_count], id)
    IN  Open(PageTable_load(f))

\* the pages the next insert_tuple or delete_tuple would hand to save_page
SavablePages ==
    LET Ok(rs) == {r.page : r \in {x \in rs : x.res = "Ok"}}
        Target(last, t) ==
          IF ~can_fit_tuple(last, t) THEN Page_new(page_count) ELSE last
        Inserted(last) ==
          {Page_insert_tuple(Target(last, t), t) : t \in TableTuples}
        Marked ==
          {Page_mark_tuple_dead(get_page(PT, loc[1]).page, loc[2]) :
              loc \in Scanned \cup DeadLocs}
    IN  Ok(Inserted(get_page(PT, page_count - 1).page) \cup Marked)

SavedRoundTrip(pt, P) ==
    LET Others(after) ==
          \A id \in 0..(pt.page_count - 1) :
              id # P.id =>
                  BSub(after.file, PAGE_SIZE * id, PAGE_SIZE)
                      = BSub(pt.file, PAGE_SIZE * id, PAGE_SIZE)
        Same(after) ==
          /\ Reloaded(after.file, P.id) = [res |-> "Ok", page |-> P]
          /\ Others(after)
    IN  Same(save_page(pt, P))

\* C15: every page the table is about to save reads back, after save_page, a
\* fresh load and get_page of its id, equal in id, free_space_end, dead_space
\* and data, and the save leaves the bytes of every other page as they were.
C15_RoundTrip == \A P \in SavablePages : SavedRoundTrip(PT, P)

\* a row of maximal size has been deleted nine times and the page read back
\* from the file counts fewer dead bytes than that one slot occupies
C15_Witness ==
    /\ ret.op = "delete" /\ ret.res = "Ok"
    /\ count.deletes >= 9
    /\ \E loc \in DeadLocs :
           get_page(PT, loc[1]).page.dead_space < TupleHeader_size + Tuple_size(tXL)

\* C16: after init and after every insert_tuple, overwrite_tuple and
\* delete_tuple, whether it succeeded or failed, the data file's size is a
\* multiple of PAGE_SIZE, equals page_count * PAGE_SIZE, and a later
\* PageTable::load of the file computes the same page_count.
C16_FileSizeIsPageCount ==
    /\ BLen(file) % PAGE_SIZE = 0
    /\ BLen(file) = page_count * PAGE_SIZE
    /\ PageTable_load(file) = [res |-> "Ok", page_count |-> page_count]

\* the file has grown past its first page and the last call failed
C16_Witness ==
    /\ page_count >= 2
    /\ ret.op = "overwrite" /\ ret.res = "Integrity"
    /\ count.inserts >= 2 /\ count.deletes >= 1

\* C17: the table scan is fail-fast: once a next() call has returned an error
\* (a page that does not load or a tuple that does not decode), every later
\* next() call on the iterator returns None, never a row or a second error.
C17_FailFast ==
    \A i \in 1..Len(scan.out) : \A j \in 1..Len(scan.out) :
        (i < j /\ scan.out[i].res \notin {"Ok", "None"})
            => scan.out[j].res = "None"

\* a row was returned, then an error, then two more calls were made, while the
\* page's own iterator still has a slot to offer
C17_Witness ==
    \E i \in 2..Len(scan.out) :
        /\ scan.out[i - 1].res = "Ok"
        /\ scan.out[i].res = "IO"
        /\ Len(scan.out) >= i + 2
        /\ PageIterator_next(scan.it.page, scan.it.offset).kind = "Some"

\* the statement the last call executed, and the rows its scan matched
Stmt == ret.arg

Matched == Selected(Stmt.before, Stmt.where)

Loc(x) == <<x.page_id, x.off>>

\* C18: within one UPDATE no row is updated twice: overwrite_tuple is applied
\* exactly once to each row that matched the predicate during the scan, in
\* scan order, and the place a row was relocated to during the apply phase is
\* never the target of another overwrite of the statement, even when the
\* relocated row still satisfies the predicate.
C18_NoRowUpdatedTwice ==
    (ret.op = "update" /\ ret.res = "Ok") =>
        LET Once(calls) ==
              /\ Len(calls) = Len(Matched)
              /\ \A k \in 1..Len(calls) : Loc(calls[k]) = Loc(Matched[k])
              /\ \A i \in 1..Len(calls) : \A j \in 1..Len(calls) :
                     /\ (i # j => Loc(calls[i]) # Loc(calls[j]))
                     /\ (calls[i].at # Loc(calls[i]) => Loc(calls[j]) # calls[i].at)
        IN  Once(ret.val.calls)

\* an UPDATE with a predicate overwrote two rows or more, and one of them
\* moved and still satisfies the predicate where it now is
C18_Witness ==
    /\ ret.op = "update" /\ ret.res = "Ok"
    /\ Stmt.where # <<>>
    /\ Len(ret.val.calls) >= 2
    /\ \E i \in 1..Len(ret.val.calls) :
           /\ ret.val.calls[i].at # Loc(ret.val.calls[i])
           /\ Matches(ret.val.calls[i].tuple, Stmt.where)

\* what SET makes of a tuple: per column the value of the last clause naming
\* it, the old value when none does
Expected(t, update_clauses) ==
    LET Naming(c) == {i \in 1..Len(update_clauses) : update_clauses[i][1] + 1 = c}
        Last(S) == CHOOSE i \in S : \A j \in S : j <= i
    IN  [c \in 1..Len(t) |->
            IF Naming(c) = {} THEN t[c] ELSE update_clauses[Last(Naming(c))][2]]

\* C19: a successful UPDATE returns the number of rows that satisfied the
\* predicate at scan time (all rows without a predicate); afterwards the table
\* holds as many rows as before, each matched row carries the SET values (the
\* last clause for a column winning) and its other columns unchanged, and every
\* other row is where it was with the contents it had.
C19_UpdateEffect ==
    (ret.op = "update" /\ ret.res = "Ok") =>
        LET Holds(after, calls) ==
              /\ ret.val.count = Len(Matched)
              /\ (Stmt.where = <<>> => ret.val.count = Len(Stmt.before))
              /\ AllOk(after)
              /\ Len(after) = Len(Stmt.before)
              /\ \A k \in 1..Len(Matched) :
                     \E n \in 1..Len(after) :
                         /\ Loc(after[n]) = calls[k].at
                         /\ after[n].tuple = Expected(Matched[k].tuple, Stmt.set)
              /\ \A k \in 1..Len(Stmt.before) :
                     ~Matches(Stmt.before[k].tuple, Stmt.where) =>
                         \E n \in 1..Len(after) : after[n] = Stmt.before[k]
        IN  Holds(PageTable_iter(PT), ret.val.calls)

\* an UPDATE naming one column twice matched some rows and not others
C19_Witness ==
    /\ ret.op = "update" /\ ret.res = "Ok"
    /\ ret.val.count >= 1
    /\ ret.val.count < Len(Stmt.before)
    /\ \E i \in 1..Len(Stmt.set) : \E j \in 1..Len(Stmt.set) :
           i < j /\ Stmt.set[i][1] = Stmt.set[j][1] /\ Stmt.set[i][2] # Stmt.set[j][2]

\* C20: a successful DELETE returns the number of rows that satisfied the
\* predicate at scan time (all rows without a predicate) and marks exactly
\* those dead: a following scan yields exactly the other rows, at their
\* previous locations, with their previous contents, in their previous order.
C20_DeleteEffect ==
    (ret.op = "delete" /\ ret.res = "Ok") =>
        LET Kept(x) == ~Matches(x.tuple, Stmt.where)
        IN  /\ ret.val.count = Len(Matched)
            /\ (Stmt.where = <<>> => ret.val.count = Len(Stmt.before))
            /\ PageTable_iter(PT) = SelectSeq(Stmt.before, Kept)

\* a DELETE with a predicate removed some rows and left others, on two pages
C20_Witness ==
    /\ ret.op = "delete" /\ ret.res = "Ok"
    /\ Stmt.where # <<>>
    /\ ret.val.count >= 1
    /\ Len(PageTable_iter(PT)) >= 2
    /\ page_count >= 2

\* C26: a tuple of the schema is written as exactly size() bytes, and reading
\* those bytes gives back the same values and leaves the reader at size().
C26_RoundTrip ==
    ret.op = "roundtrip" =>
        /\ ret.res = "Ok"
        /\ BLen(ret.val.bytes) = ret.val.size
        /\ ret.val.tuple = ret.arg.tuple
        /\ ret.val.next = ret.val.size

C26_Witness ==
    /\ ret.op = "roundtrip"
    /\ ret.res = "Ok"
    /\ ret.arg.tuple[1].v < 0
    /\ BLen(ret.arg.tuple[2].v) = 300
    /\ ret.arg.tuple[3].v = F64_NaN
    /\ ret.val.next = 317

\* C27: an ordering predicate (<, <=, >, >=) between two Bools, two Strings or
\* two values of different types is false, equal values included.
C27_Unordered ==
    LET Ordering(c) == c.op \in {"Lt", "Lte", "Gt", "Gte"}
        Numeric(a, b) == a.k = b.k /\ a.k \in {"Int", "Double"}
    IN  ret.op = "match" =>
          ((Ordering(ret.arg.where[1])
              /\ ~Numeric(ret.arg.tuple[ret.arg.where[1].col + 1],
                          ret.arg.where[1].value))
             => ret.val = FALSE)

C27_Witness ==
    /\ ret.op = "match"
    /\ ret.arg.where[1].op = "Gte"
    /\ ret.arg.where[1].col = 1
    /\ ret.arg.where[1].value.k = "String"
    /\ ret.arg.tuple[2] = ret.arg.where[1].value
    /\ ret.val = FALSE

\* C28: no slot ever handed out holds a tuple longer than PAGE_DATA_SIZE - 3,
\* and an insert_tuple or overwrite_tuple call with a longer tuple fails with
\* an Integrity error and leaves the file and page_count as they were.
C28_OversizeRefused ==
    /\ [](\A k \in 1..Len(slots) :
              Tuple_size(slots[k].tuple) <= PAGE_DATA_SIZE - TupleHeader_size)
    /\ [][(/\ ret'.op \in {"insert", "overwrite"}
           /\ ret'.arg[Len(ret'.arg)] > PAGE_DATA_SIZE - TupleHeader_size)
            => (/\ ret'.res = "Integrity"
                /\ file' = file
                /\ page_count' = page_count)]_vars

\* an overwrite of an alive row of a two-page table with an oversize tuple
\* was refused
C28_Witness ==
    /\ ret.op = "overwrite"
    /\ ret.arg[3] = PAGE_DATA_SIZE - TupleHeader_size + 1
    /\ ret.res = "Integrity"
    /\ \E k \in 1..Len(slots) : At(slots[k], ret.arg[1], ret.arg[2]) /\ slots[k].alive
    /\ page_count = 2

\* C30: a successful insert_tuple puts the tuple on the last page when that
\* page can fit it (page_count unchanged), otherwise at offset 0 of a new
\* page with id = the old page_count (page_count + 1); the location is above
\* every location handed out before.
C30_InsertPlacement ==
    [][(ret'.op = "insert" /\ ret'.res = "Ok")
        => LET Placed(last, need) ==
                 /\ IF free_space(last) >= need
                    THEN /\ ret'.val = <<page_count - 1, last.free_space_end>>
                         /\ page_count' = page_count
                    ELSE /\ ret'.val = <<page_count, 0>>
                         /\ page_count' = page_count + 1
                 /\ \A k \in 1..Len(slots) :
                       \/ slots[k].page_id < ret'.val[1]
                       \/ /\ slots[k].page_id = ret'.val[1]
                          /\ slots[k].off < ret'.val[2]
           IN  Placed(get_page(PT, page_count - 1).page,
                      TupleHeader_size + ret'.arg[1])]_vars

\* a row went to a third page although the first page had room for it
C30_Witness ==
    /\ ret.op = "insert" /\ ret.res = "Ok"
    /\ ret.val = <<2, 0>>
    /\ page_count = 3
    /\ free_space(get_page(PT, 0).page) >= TupleHeader_size + ret.arg[1]

\* the DB before the last statement, the table it named, the catalog part of
\* a DB, and the rows a full scan of a table returns
DbBefore == ret.arg.before
Named == ret.arg.table_name
Catalog(d) ==
    [tables |-> d.tables, next_table_id |-> d.next_table_id, metadata |-> d.metadata]
RowsOf(d, name) == DB_select(d, name, <<>>)

\* C21: CREATE TABLE with a name the catalog already has fails with an
\* Execution error; catalog, counter, metadata file and all table files are
\* as before, and a scan of the existing table returns the same rows.
C21_CreateExisting ==
    (ret.op = "create" /\ HasTable(DbBefore, Named)) =>
        /\ ret.res = "Execution"
        /\ Catalog(db) = Catalog(DbBefore)
        /\ db.files = DbBefore.files
        /\ RowsOf(db, Named) = RowsOf(DbBefore, Named)

C21_Witness ==
    /\ ret.op = "create"
    /\ HasTable(DbBefore, Named)
    /\ ret.res = "Execution"
    /\ Len(RowsOf(db, Named).val) = 2
    /\ Cardinality(db.tables) = 2

\* C22: next_table_id never decreases; every table's id is below it; no two
\* tables share an id; no table has the id of a dropped table, and a table
\* just created has id = the old next_table_id and an empty data file.
C22_IdsMonotonic ==
    /\ ret.op # "init" => db.next_table_id >= DbBefore.next_table_id
    /\ \A t \in db.tables : t.id < db.next_table_id
    /\ \A t, u \in db.tables : t.id = u.id => t = u
    /\ \A t \in db.tables : \A k \in 1..Len(slots) : slots[k].id # t.id
    /\ (ret.op = "create" /\ ret.res = "Ok") =>
          \A t \in {get_table(db, Named).table} :
             /\ t.id = DbBefore.next_table_id
             /\ db.next_table_id = t.id + 1
             /\ t.id \notin DOMAIN DbBefore.files
             /\ db.files[t.id] = PageTable_init.file
             /\ RowsOf(db, Named).val = <<>>

\* a table is created again under the name of a dropped table that had rows
C22_Witness ==
    /\ ret.op = "create" /\ ret.res = "Ok"
    /\ \E k \in 1..Len(slots) :
          /\ slots[k].name = Named
          /\ slots[k].id < get_table(db, Named).table.id
    /\ RowsOf(db, Named).val = <<>>
    /\ Cardinality(db.tables) = 2

\* C23: INSERT, UPDATE, DELETE and SELECT leave the table map with its
\* schemas, next_table_id and the metadata file as they were, whatever their
\* result; a successful CREATE or DROP changes the map and the metadata.
C23_CatalogFrame ==
    /\ ret.op \in {"insert", "update", "delete", "select"} =>
          Catalog(db) = Catalog(DbBefore)
    /\ (ret.op \in {"create", "drop"} /\ ret.res = "Ok") =>
          /\ db.tables # DbBefore.tables
          /\ db.metadata # DbBefore.metadata

\* an UPDATE that rewrote the two rows of a table
C23_Witness ==
    /\ ret.op = "update" /\ ret.res = "Ok" /\ ret.val = 2
    /\ db.files # DbBefore.files
    /\ Catalog(db) = Catalog(DbBefore)
    /\ Cardinality(db.tables) = 2

\* C24: a successful DROP removes the table's file and catalog entry and
\* leaves every other table and file as it was; a statement other than
\* CREATE that names a table the catalog does not have fails with the
\* Execution error of DB::get_table and changes nothing.
C24_DropEffect ==
    /\ (ret.op = "drop" /\ ret.res = "Ok") =>
          \A t \in {get_table(DbBefore, Named).table} :
             /\ t.id \notin DOMAIN db.files
             /\ ~HasTable(db, Named)
             /\ db.tables = DbBefore.tables \ {t}
             /\ DOMAIN db.files = DOMAIN DbBefore.files \ {t.id}
             /\ \A i \in DOMAIN db.files : db.files[i] = DbBefore.files[i]
             /\ db.next_table_id = DbBefore.next_table_id
    /\ (ret.op \in {"drop", "insert", "select", "update", "delete"}
          /\ ~HasTable(DbBefore, Named)) =>
          /\ ret.res = "Execution"
          /\ db = DbBefore

\* a statement on a dropped table fails while the other table keeps its row
C24_Witness ==
    /\ ret.op \in {"insert", "select", "update", "delete"}
    /\ \E k \in 1..Len(slots) : slots[k].name = Named
    /\ ~HasTable(db, Named)
    /\ ret.res = "Execution"
    /\ Len(RowsOf(db, NameB).val) = 1
    /\ count.calls >= 2

\* the INSERT's values do not match the named table's columns in number or type
Mismatch(t, values) ==
    \/ Len(values) # Len(t.columns)
    \/ \E i \in 1..Len(values) : DBValue_dtype(values[i]) # t.columns[i].dtype

InsertOutcome(fits) ==
    (ret.op = "insert" /\ HasTable(DbBefore, Named)) =>
        \A t \in {get_table(DbBefore, Named).table} :
           IF Mismatch(t, ret.arg.values)
           THEN /\ ret.res = "Execution"
                /\ db = DbBefore
           ELSE IF ~fits
           THEN /\ ret.res = "Integrity"
                /\ db = DbBefore
           ELSE /\ ret.res = "Ok"
                /\ ret.val = 1
                /\ RowsOf(db, Named).val
                     = Append(RowsOf(DbBefore, Named).val, ret.arg.values)
                /\ \A i \in DOMAIN db.files \ {t.id} : db.files[i] = DbBefore.files[i]
                /\ DOMAIN db.files = DOMAIN DbBefore.files

\* C25 as stated: an INSERT whose values match the columns in number and type
\* adds exactly one row and returns 1.
C25_AsStated == InsertOutcome(TRUE)

\* C25: an INSERT with the wrong number of values or a value of the wrong
\* type fails with an Execution error and the table file is unchanged; one
\* whose values match and whose row fits a page (at most PAGE_DATA_SIZE - 3
\* bytes) adds the row at the end of the scan and returns 1; one whose row
\* is longer fails with an Integrity error and the file is unchanged.
C25_InsertValidates ==
    InsertOutcome(ret.op = "insert"
                    => Tuple_size(ret.arg.values) <= PAGE_DATA_SIZE - TupleHeader_size)

\* a Bool offered for the Int column of a table with two rows is refused
C25_Witness ==
    /\ ret.op = "insert"
    /\ Len(ret.arg.values) = 4
    /\ DBValue_dtype(ret.arg.values[1]) = "Bool"
    /\ ret.res = "Execution"
    /\ Len(RowsOf(db, Named).val) = 2
    /\ db = DbBefore

\* the tuples a scan of the file through a fresh handle returns
FileRows(f) ==
    LET Ok(items) == SelectSeq(items, LAMBDA x : x.res = "Ok")
    IN  RowTuples(Ok(PageTable_iter([file |-> f,
                                     page_count |-> PageTable_load(f).page_count])))

\* the finished inserts of the other writers that saved the page `mine` went
\* to, after `mine` had loaded it
Overtaken(w, mine) ==
    {s \in UNION {{writers[u].seen[k] : k \in 1..Len(writers[u].seen)} :
                     u \in Writers \ {w}} :
        /\ s.res = "Ok"
        /\ s.val[1] = mine.val[1]
        /\ s.saved_at > mine.loaded_at}

\* C29: when a writer saves its page, its insert returns Ok and its row is in
\* the file, and every row another writer saved to that page since this
\* writer loaded it, by an insert that returned Ok, is gone from a scan.
C29_LastSaveWins ==
    ret.op = "save" =>
        LET Check(rows, mine) ==
              /\ mine.res = "Ok"
              /\ \E i \in 1..Len(rows) : rows[i] = mine.tuple
              /\ \A s \in Overtaken(ret.arg[1], mine) :
                    \A i \in 1..Len(rows) : rows[i] # s.tuple
        IN  Check(FileRows(file),
                  writers[ret.arg[1]].seen[Len(writers[ret.arg[1]].seen)])

\* both inserts returned Ok and the file holds one row less than before plus two
C29_Witness ==
    /\ ret.op = "save"
    /\ Overtaken(ret.arg[1], writers[ret.arg[1]].seen[1]) # {}
    /\ \A w \in Writers : writers[w].done = 1 /\ writers[w].res = "Ok"
    /\ Len(FileRows(file)) = 3

\* C39: a page table created by init has at least one page after any sequence
\* of insert_tuple, overwrite_tuple and delete_tuple calls, and every page of
\* the file loads and carries its own index as id.
C39_PagesIndexed ==
    /\ page_count >= 1
    /\ \A i \in 0..(page_count - 1) :
          \A g \in {get_page(PT, i)} : g.res = "Ok" /\ g.page.id = i

\* three pages, after a row was deleted and a row was moved to another page
C39_Witness ==
    /\ page_count = 3
    /\ count.deletes >= 1
    /\ \E k \in 1..Len(slots) : ~slots[k].alive /\ slots[k].page_id = 0
    /\ get_page(PT, 2).page.id = 2

\* Views of the last page table call of the step-by-step runs: the call has
\* returned, its tuple, its target, the table before it, the slot header and
\* the page of the target before it, and the scans before and after it.
Returns(op) == ret.op = op /\ writers.pc = "done"

RTuple == RelocTuples[ret.arg.tuple]

RLoc == <<ret.arg.page_id, ret.arg.offset>>

ScanBefore == PageTable_iter(ret.arg.before)

RowAt(it, loc) == {k \in 1..Len(it) : it[k].res = "Ok" /\ <<it[k].page_id, it[k].off>> = loc}

PageBefore == get_page(ret.arg.before, ret.arg.page_id).page

SlotBefore == TupleHeader_from_reader(PageBefore.data, ret.arg.offset)

WellTyped(t) == Tuple_write(t).err = "Ok"

\* the target is a row of the table and the new tuple fits its slot
InPlace ==
    /\ Returns("overwrite")
    /\ RowAt(ScanBefore, RLoc) # {}
    /\ WellTyped(RTuple)
    /\ Tuple_size(RTuple) <= SlotBefore.len

\* C31: when the new tuple fits the target slot, overwrite_tuple returns the
\* same (page_id, slot_offset) and changes nothing but that row: the scan
\* afterwards is the scan before with the new tuple at that location, and
\* page_count and the page's free_space_end and dead_space are as before.
C31_InPlaceFrame ==
    InPlace =>
        /\ ret.res = "Ok"
        /\ ret.val = RLoc
        /\ page_count = ret.arg.before.page_count
        /\ BLen(file) = BLen(ret.arg.before.file)
        /\ \A g \in {get_page(PT, ret.arg.page_id)} :
              /\ g.res = "Ok"
              /\ g.page.free_space_end = PageBefore.free_space_end
              /\ g.page.dead_space = PageBefore.dead_space
        /\ \A i \in 0..(page_count - 1) :
              i # ret.arg.page_id =>
                  get_page(PT, i).page = get_page(ret.arg.before, i).page
        /\ PageTable_iter(PT) =
              [k \in 1..Len(ScanBefore) |->
                  IF k \in RowAt(ScanBefore, RLoc)
                  THEN [ScanBefore[k] EXCEPT !.tuple = RTuple]
                  ELSE ScanBefore[k]]

\* a 4077-byte row on a full first page was overwritten by a 22-byte tuple
C31_Witness ==
    /\ InPlace
    /\ ret.arg.before.page_count = 2
    /\ ret.arg.page_id = 0
    /\ SlotBefore.len > Tuple_size(RTuple)
    /\ Len(ScanBefore) = 4
    /\ \E k \in RowAt(ScanBefore, RLoc) : ScanBefore[k].tuple # RTuple

\* the rows a scan yields from one page, and those not at a location
OnPage(it, page_id) == SelectSeq(it, LAMBDA r : r.res = "Ok" /\ r.page_id = page_id)

Except(it, loc) == SelectSeq(it, LAMBDA r : <<r.page_id, r.off>> # loc)

\* the target is a row of the table and the new tuple is longer than its slot
Outgrown ==
    /\ Returns("overwrite")
    /\ RowAt(ScanBefore, RLoc) # {}
    /\ WellTyped(RTuple)
    /\ Tuple_size(RTuple) > SlotBefore.len

\* C32: when the new tuple exceeds the slot's capacity but the slot's own page
\* has room, overwrite_tuple returns (page_id, the page's previous
\* free_space_end), also when the page is not the last one; the row is the
\* last row of that page in scan order, the old location is no longer
\* yielded, the other pages' rows and page_count are unchanged.
C32_SamePageRelocation ==
    (Outgrown /\ can_fit_tuple(PageBefore, RTuple)) =>
        /\ ret.res = "Ok"
        /\ ret.val = <<ret.arg.page_id, PageBefore.free_space_end>>
        /\ page_count = ret.arg.before.page_count
        /\ RowAt(PageTable_iter(PT), RLoc) = {}
        /\ OnPage(PageTable_iter(PT), ret.arg.page_id) =
              Append(Except(OnPage(ScanBefore, ret.arg.page_id), RLoc),
                     [res |-> "Ok", page_id |-> ret.arg.page_id,
                      off |-> PageBefore.free_space_end, tuple |-> RTuple])
        /\ \A i \in 0..(page_count - 1) :
              i # ret.arg.page_id =>
                  get_page(PT, i).page = get_page(ret.arg.before, i).page
        /\ \A g \in {get_page(PT, ret.arg.page_id).page} :
              /\ ~TupleHeader_from_reader(g.data, ret.arg.offset).alive
              /\ g.dead_space = PageBefore.dead_space + TupleHeader_size + SlotBefore.len
              /\ g.free_space_end =
                    PageBefore.free_space_end + TupleHeader_size + Tuple_size(RTuple)

\* a 21-byte row in the middle of page 0 of a two-page table was replaced by
\* a 22-byte tuple, which went to the end of page 0
C32_Witness ==
    /\ Outgrown
    /\ can_fit_tuple(PageBefore, RTuple)
    /\ ret.arg.before.page_count = 2
    /\ ret.arg.page_id = 0
    /\ ret.arg.offset > 0
    /\ ret.val[1] = 0
    /\ ret.val[2] > ret.arg.offset
    /\ Len(OnPage(ScanBefore, 0)) = 3

\* the slot of the call's target, in the file as it is now
SlotNow == TupleHeader_from_reader(get_page(PT, ret.arg.page_id).page.data,
                                   ret.arg.offset)

\* the call is in its cross-page branch: before the nested insert_tuple, or
\* past it with a location on another page to return
AtNested == ret.op = "overwrite" /\ writers.pc = "insert"

PastNested ==
    /\ ret.op = "overwrite"
    /\ writers.pc = "save"
    /\ writers.res[1] # ret.arg.page_id

\* C33 as stated: when insert_tuple is about to be invoked, the page with the
\* tombstone applied has already been saved to the data file.
C33_AsStated == AtNested => ~SlotNow.alive

\* C33, amended: the nested insert_tuple runs first. When it is invoked the
\* file is still as it was before the call (the tombstone is only in the
\* local page); when it has returned, the file holds the new tuple on another
\* page and the original slot still alive; the tombstoned page is saved last,
\* and the steps together give what overwrite_tuple gives as one call.
C33_TombstoneSavedLast ==
    /\ AtNested =>
          /\ PT = ret.arg.before
          /\ SlotNow.alive
          /\ ~TupleHeader_from_reader(writers.page.data, ret.arg.offset).alive
          /\ writers.page.id = ret.arg.page_id
    /\ PastNested =>
          /\ SlotNow.alive
          /\ get_page(PT, ret.arg.page_id).page = PageBefore
          /\ \E k \in RowAt(PageTable_iter(PT), writers.res) :
                PageTable_iter(PT)[k].tuple = RTuple
    /\ Returns("overwrite") =>
          \A r \in {PageTable_overwrite_tuple(ret.arg.before, ret.arg.page_id,
                                              ret.arg.offset, RTuple)} :
              /\ r.res = ret.res
              /\ r.pt = PT
              /\ r.res = "Ok" => r.val = ret.val /\ (r.val # RLoc => ~SlotNow.alive)

\* the nested insert_tuple has put the tuple on a fresh second page and the
\* file still yields the original row too
C33_Witness ==
    /\ PastNested
    /\ page_count = 2
    /\ ret.arg.before.page_count = 1
    /\ RowAt(PageTable_iter(PT), RLoc) # {}
    /\ RowAt(PageTable_iter(PT), writers.res) # {}
    /\ Len(PageTable_iter(PT)) = Len(ScanBefore) + 1

\* an overwrite_tuple call, running or returned, whose tuple fits neither the
\* target row's slot nor the free space of the slot's page
CrossPage ==
    /\ ret.op = "overwrite"
    /\ RowAt(ScanBefore, RLoc) # {}
    /\ WellTyped(RTuple)
    /\ Tuple_size(RTuple) > SlotBefore.len
    /\ ~can_fit_tuple(PageBefore, RTuple)

\* C34: a relocation to another page loses neither the tuple nor the
\* tombstone. The nested insert_tuple leaves the page of the original slot as
\* it was (also when that page is the last page), so the closing save of the
\* tombstoned page overwrites nothing new; after the call the file holds the
\* dead original slot and the alive new tuple on a different page, and every
\* other row where it was.
C34_RelocationKeepsBoth ==
    /\ (CrossPage /\ writers.pc = "save") =>
          /\ writers.res[1] # ret.arg.page_id
          /\ get_page(PT, ret.arg.page_id).page = PageBefore
    /\ (CrossPage /\ Returns("overwrite") /\ ret.res = "Ok") =>
          /\ ret.val[1] # ret.arg.page_id
          /\ ret.val[1] >= ret.arg.before.page_count - 1
          /\ get_page(PT, ret.arg.page_id).page =
                Page_mark_tuple_dead(PageBefore, ret.arg.offset).page
          /\ ~SlotNow.alive
          /\ PageTable_iter(PT) =
                Append(Except(ScanBefore, RLoc),
                       [res |-> "Ok", page_id |-> ret.val[1], off |-> ret.val[2],
                        tuple |-> RTuple])

\* the only page was full: the row moved from the last page to a fresh one
C34_Witness ==
    /\ CrossPage
    /\ Returns("overwrite")
    /\ ret.res = "Ok"
    /\ ret.arg.before.page_count = 1
    /\ ret.arg.page_id = 0
    /\ ret.val = <<1, 0>>
    /\ Len(ScanBefore) = 3
    /\ ~SlotNow.alive

\* a page table call of the step-by-step runs has returned an error
Refused ==
    /\ ret.op \in {"insert", "overwrite", "delete"}
    /\ writers.pc = "done"
    /\ ret.res # "Ok"

\* C37: an insert_tuple, overwrite_tuple or delete_tuple call that returns an
\* error leaves the data file and page_count as they were before the call:
\* once a call has written to the file it can no longer fail.
C37_ErrorsWriteNothing ==
    /\ Refused => PT = ret.arg.before
    /\ (ret.op \in {"insert", "overwrite", "delete"} /\ PT # ret.arg.before) =>
          \/ writers.pc = "save"
          \/ writers.pc = "done" /\ ret.res = "Ok"

\* overwrite_tuple on a row of a full page with a tuple too long for any
\* page: refused by the nested insert_tuple after the slot was marked dead in
\* the local page
C37_Witness ==
    /\ Refused
    /\ ret.op = "overwrite"
    /\ ret.res = "Integrity"
    /\ RowAt(ScanBefore, RLoc) # {}
    /\ WellTyped(RTuple)
    /\ ~can_fit_tuple(PageBefore, RTuple)
    /\ SlotNow.alive

\* C35: the locations queued by the scan phase of UPDATE and DELETE stay
\* valid through the apply phase: when the k-th page table call of the
\* statement is made, after the first k-1 have taken effect, its location is
\* the k-th matched row's and the table still holds there the very row the
\* scan saw (alive, same contents); no call meets a dead slot or another row.
C35_QueuedLocationsValid ==
    ret.op \in {"update", "delete"} =>
        \A k \in 1..Len(ret.val.calls) :
            /\ k <= Len(Matched)
            /\ Loc(ret.val.calls[k]) = Loc(Matched[k])
            /\ Len(ret.val.calls[k].was) = 1
            /\ ret.val.calls[k].was[1].tuple = Matched[k].tuple

\* an UPDATE whose first overwrite moved its row to another place, followed
\* by an overwrite of a later row of the same page
C35_Witness ==
    /\ ret.op = "update" /\ ret.res = "Ok"
    /\ Len(ret.val.calls) >= 2
    /\ ret.val.calls[1].at # Loc(ret.val.calls[1])
    /\ ret.val.calls[2].page_id = ret.val.calls[1].page_id
    /\ ret.val.calls[2].off > ret.val.calls[1].off
    /\ ret.val.calls[2].res = "Ok"

\* where a slot walk ends, and the bytes of its dead slots
WalkEnd(w) ==
    IF w = <<>> THEN 0 ELSE w[Len(w)].off + TupleHeader_size + w[Len(w)].len

RECURSIVE DeadBytes(_)
DeadBytes(w) ==
    IF w = <<>> THEN 0
    ELSE (IF w[1].alive THEN 0 ELSE TupleHeader_size + w[1].len) + DeadBytes(Tail(w))

\* C38: on every page of a table worked on through INSERT, UPDATE and DELETE
\* the slot accounting is exact: walking the slots from offset 0 by 3 + len
\* meets valid headers only and lands exactly on free_space_end, and
\* dead_space is the sum of 3 + len over exactly the dead slots.
C38_SlotAccounting ==
    \A i \in 0..(page_count - 1) :
        LET Exact(p, w) ==
              /\ \A k \in 1..Len(w) : w[k].ok
              /\ WalkEnd(w) = p.free_space_end
              /\ DeadBytes(w) = p.dead_space
            Walked(p) == Exact(p, SlotWalk(p, 0))
        IN  Walked(get_page(PT, i).page)

\* after an UPDATE that moved rows and a DELETE, a two-page table with rows
\* left and a page with more dead slots than the DELETE removed rows
C38_Witness ==
    /\ ret.op = "delete" /\ ret.res = "Ok"
    /\ ret.val.count >= 1
    /\ page_count = 2
    /\ Len(PageTable_iter(PT)) >= 1
    /\ \E w \in {SlotWalk(get_page(PT, ret.val.calls[1].page_id).page, 0)} :
          Cardinality({k \in 1..Len(w) : ~w[k].alive}) > ret.val.count

\* the last next() call returned None
Ended == scan.out # <<>> /\ scan.out[Len(scan.out)].res = "None"

\* C36: a scan terminates. A caller that keeps calling next() is eventually
\* given None and from then on nothing else; every call that yields a row
\* leaves the iterator either on a later page or at least 3 bytes further in
\* the same page, and the page id of the iterator never decreases, so each
\* page is visited at most once.
C36_ScanTerminates ==
    /\ <>[]Ended
    /\ [][Len(scan'.out) = Len(scan.out) + 1 =>
            /\ scan'.it.page_id >= scan.it.page_id
            /\ (Ended => Ended')
            /\ ret'.res = "Ok" =>
                  /\ scan'.it.page_id = ret'.val.page_id
                  /\ scan'.it.offset >= ret'.val.off + TupleHeader_size
                  /\ \/ ~scan.it.loaded
                     \/ scan'.it.page_id > scan.it.page_id
                     \/ scan'.it.offset >= scan.it.offset + TupleHeader_size
      ]_vars

\* a scan went over a dead slot and two pages, ended, and was asked again
C36_Witness ==
    /\ Len(scan.out) >= 3
    /\ scan.out[Len(scan.out) - 1].res = "None"
    /\ Ended
    /\ \E i \in 1..Len(scan.out) : scan.out[i].res = "Ok" /\ scan.out[i].page_id = 1
    /\ scan.out[1].res = "Ok"
    /\ scan.it.page_id > page_count

\* C40: the persisted catalog matches the in-memory one: after DB::init and
\* after every CREATE and DROP, DB::load of the metadata file gives the same
\* next_table_id and the same tables (id, name, columns in order), and the
\* storage directory holds a data file <id>.tbl for exactly the catalog's
\* tables.
C40_CatalogPersisted ==
    /\ \A l \in {DB_load(db.metadata)} :
          /\ l.res = "Ok"
          /\ l.next_table_id = db.next_table_id
          /\ l.tables = db.tables
    /\ DOMAIN db.files = {t.id : t \in db.tables}

\* a CREATE after a DROP: two tables, ids no longer 0 and 1, written to the
\* metadata file with the higher id first
C40_Witness ==
    /\ ret.op = "create" /\ ret.res = "Ok"
    /\ slots # <<>>
    /\ Cardinality(db.tables) = 2
    /\ db.next_table_id = 3
    /\ \E t \in db.tables : Table_from_reader(db.metadata, 8).v.id > t.id

====
